---- MODULE Spec2Model ----
(***************************************************************************)
(* MyDocta: the session controller of src/app/page.tsx (ChatPage), the     *)
(* input component of src/app/_components/chat-input.tsx and the request   *)
(* route of src/app/api/chat/route.ts.                                     *)
(*                                                                         *)
(* Strings are sequences of one-character strings, so that indexOf,        *)
(* substring and trim are computed as JavaScript computes them.  A few     *)
(* long literals that no operation looks into (the system prompt, the      *)
(* greeting, error phrases) are single tokens of such a sequence.          *)
(***************************************************************************)
EXTENDS Integers, Sequences, FiniteSets, TLC

(***************************************************************************)
(* Bounds of the model.                                                    *)
(***************************************************************************)
\* accepted submissions (calls of sendMultimodalMessage that pass its guard)
MaxSubmits == 2
\* closures of earlier renders alive at the same time: the callbacks of file
\* reads in progress and the onstop handler of an active recorder
MaxClosures == 1
\* fragments concatenated into a response text of the splitter specification
MaxFrags == 5
\* calls of getUserMedia in the recorder specification
MaxRecordings == 2
\* the longest duration of an audio in the player specification, in steps of
\* the slider
MaxDuration == 20

(***************************************************************************)
(* JavaScript values.                                                      *)
(***************************************************************************)
\* JavaScript undefined, for an optional string
Undefined == <<"undefined">>
\* JavaScript null, for reportContent
Null == <<"null">>

\* JavaScript truthiness of an optional string
Truthy(v) == v # Undefined /\ v # Null /\ v # <<>>

IsSpace(c) == c \in {" ", "\n"}

RECURSIVE TrimStart(_)
TrimStart(s) ==
    IF s = <<>> THEN <<>>
    ELSE IF IsSpace(Head(s)) THEN TrimStart(Tail(s)) ELSE s

RECURSIVE TrimEnd(_)
TrimEnd(s) ==
    IF s = <<>> THEN <<>>
    ELSE IF IsSpace(s[Len(s)]) THEN TrimEnd(SubSeq(s, 1, Len(s) - 1)) ELSE s

\* String.prototype.trim
Trim(s) == TrimEnd(TrimStart(s))

\* The 0-based position of the last occurrence, or -1
IndexOfLastMut(s, pat) ==
    LET hits == {i \in 0..(Len(s) - Len(pat)) : SubSeq(s, i + 1, i + Len(pat)) = pat}
    IN  IF hits = {} THEN -1 ELSE CHOOSE i \in hits : \A j \in hits : i >= j

\* String.prototype.indexOf: the 0-based position of the first occurrence, or -1
IndexOf(s, pat) ==
    LET hits == {i \in 0..(Len(s) - Len(pat)) : SubSeq(s, i + 1, i + Len(pat)) = pat}
    IN  IF hits = {} THEN -1 ELSE CHOOSE i \in hits : \A j \in hits : i <= j

Clamp(n, len) == IF n < 0 THEN 0 ELSE IF n > len THEN len ELSE n

\* String.prototype.substring(a, b): arguments clamped to [0, length] and swapped
\* when a > b
Substring(s, a, b) ==
    LET x == Clamp(a, Len(s))
        y == Clamp(b, Len(s))
        lo == IF x <= y THEN x ELSE y
        hi == IF x <= y THEN y ELSE x
    IN  SubSeq(s, lo + 1, hi)

\* String.prototype.substring(a)
SubstringFrom(s, a) == Substring(s, a, Len(s))

(***************************************************************************)
(* The report markers and the response splitter (page.tsx).                *)
(***************************************************************************)
REPORT_START_MARKER ==
    <<"-", "-", "-", " ", "R", "E", "P", "O", "R", "T", " ",
      "S", "T", "A", "R", "T", " ", "-", "-", "-">>

REPORT_END_MARKER ==
    <<"-", "-", "-", " ", "R", "E", "P", "O", "R", "T", " ",
      "E", "N", "D", " ", "-", "-", "-">>

\* " REPORT END ---": written after the START marker, it makes an END marker
\* that begins inside the dashes that end the START marker
END_TAIL == SubSeq(REPORT_END_MARKER, 4, Len(REPORT_END_MARKER))

\* The condition of the report branch, on the two indexOf results
HasReportMut(startIdx, endIdx) == startIdx # -1 /\ endIdx # -1

HasReport(startIdx, endIdx) ==
    startIdx # -1 /\ endIdx # -1 /\ endIdx > startIdx

\* The three substrings of the report branch, trimmed
ExtractPartsMut(text, startIdx, endIdx) ==
    [regularResponse |-> Trim(Substring(text, 0, startIdx)),
     extractedReport |-> Trim(Substring(text, startIdx, endIdx)),
     postReportText  |-> Trim(SubstringFrom(text, endIdx + Len(REPORT_END_MARKER)))]

ExtractParts(text, startIdx, endIdx) ==
    [regularResponse |-> Trim(Substring(text, 0, startIdx)),
     extractedReport |-> Trim(Substring(text, startIdx + Len(REPORT_START_MARKER), endIdx)),
     postReportText  |-> Trim(SubstringFrom(text, endIdx + Len(REPORT_END_MARKER)))]

\* What the success branch of sendMultimodalMessage computes from a truthy
\* response text: whether the report branch is taken, and its three locals
SplitResponse(text) ==
    LET reportStartIndex == IndexOf(text, REPORT_START_MARKER)
        reportEndIndex   == IndexOf(text, REPORT_END_MARKER)
    IN  IF HasReport(reportStartIndex, reportEndIndex)
        THEN [isReport |-> TRUE] @@ ExtractParts(text, reportStartIndex, reportEndIndex)
        ELSE [isReport |-> FALSE, regularResponse |-> <<>>,
              extractedReport |-> <<>>, postReportText |-> <<>>]

(***************************************************************************)
(* Media: data URLs as FileReader.readAsDataURL produces them, and the     *)
(* route's parser of them.                                                 *)
(***************************************************************************)
DATA_PREFIX == <<"d", "a", "t", "a", ":">>
BASE64_SEP == <<";", "b", "a", "s", "e", "6", "4", ",">>
MIME_IMAGE_PNG == <<"i", "m", "a", "g", "e", "/", "p", "n", "g">>
MIME_AUDIO_WEBM == <<"a", "u", "d", "i", "o", "/", "w", "e", "b", "m">>
MIME_TEXT_PLAIN == <<"t", "e", "x", "t", "/", "p", "l", "a", "i", "n">>

\* FileReader.readAsDataURL of a blob of the given type and base64 payload
ReadAsDataURL(mime, payload) == DATA_PREFIX \o mime \o BASE64_SEP \o payload

StartsWith(s, pre) == Len(s) >= Len(pre) /\ SubSeq(s, 1, Len(pre)) = pre

\* No part: the null that dataUrlToGenerativePart returns
NoPart == [none |-> TRUE]

\* The 0-based positions of ";base64," at which /^data:(.+);base64,(.+)$/ can
\* match: both groups non-empty and free of line terminators
MatchPositions(dataUrl) ==
    {j \in 6..(Len(dataUrl) - Len(BASE64_SEP) - 1) :
        /\ SubSeq(dataUrl, j + 1, j + Len(BASE64_SEP)) = BASE64_SEP
        /\ \A k \in 6..Len(dataUrl) : dataUrl[k] # "\n"}

\* commonAudioTypes of dataUrlToGenerativePart
commonAudioTypes ==
    {<<"a", "u", "d", "i", "o", "/", "w", "e", "b", "m">>,
     <<"a", "u", "d", "i", "o", "/", "o", "g", "g">>,
     <<"a", "u", "d", "i", "o", "/", "w", "a", "v">>,
     <<"a", "u", "d", "i", "o", "/", "m", "p", "4">>,
     <<"a", "u", "d", "i", "o", "/", "a", "a", "c">>,
     <<"a", "u", "d", "i", "o", "/", "m", "p", "e", "g">>,
     <<"a", "u", "d", "i", "o", "/", "m", "p", "3">>}

\* dataUrlToGenerativePart with the audio check returning null
DataUrlToGenerativePartStrictMut(dataUrl, expectedType) ==
    IF ~StartsWith(dataUrl, DATA_PREFIX) \/ MatchPositions(dataUrl) = {}
    THEN NoPart
    ELSE LET j == CHOOSE x \in MatchPositions(dataUrl) :
                      \A y \in MatchPositions(dataUrl) : y <= x
             mimeType == SubSeq(dataUrl, 6, j)
             base64Data == SubSeq(dataUrl, j + Len(BASE64_SEP) + 1, Len(dataUrl))
         IN  IF expectedType = "image"
                  /\ ~StartsWith(mimeType, <<"i", "m", "a", "g", "e", "/">>)
             THEN NoPart
             ELSE IF expectedType = "audio"
                  /\ ~\E type \in commonAudioTypes : StartsWith(mimeType, type)
             THEN NoPart
             ELSE [inlineData |-> [mimeType |-> mimeType, data |-> base64Data]]

\* dataUrlToGenerativePart: the greedy first group takes the last separator
DataUrlToGenerativePartMut(dataUrl, expectedType) ==
    IF ~StartsWith(dataUrl, DATA_PREFIX) \/ MatchPositions(dataUrl) = {}
    THEN NoPart
    ELSE LET j == CHOOSE x \in MatchPositions(dataUrl) :
                      \A y \in MatchPositions(dataUrl) : y <= x
             mimeType == SubSeq(dataUrl, 6, j)
             base64Data == SubSeq(dataUrl, j + Len(BASE64_SEP) + 1, Len(dataUrl))
         IN  [inlineData |-> [mimeType |-> mimeType, data |-> base64Data]]

DataUrlToGenerativePart(dataUrl, expectedType) ==
    IF ~StartsWith(dataUrl, DATA_PREFIX) \/ MatchPositions(dataUrl) = {}
    THEN NoPart
    ELSE LET j == CHOOSE x \in MatchPositions(dataUrl) :
                      \A y \in MatchPositions(dataUrl) : y <= x
             mimeType == SubSeq(dataUrl, 6, j)
             base64Data == SubSeq(dataUrl, j + Len(BASE64_SEP) + 1, Len(dataUrl))
         IN  IF expectedType = "image"
                  /\ ~StartsWith(mimeType, <<"i", "m", "a", "g", "e", "/">>)
             THEN NoPart
             ELSE IF expectedType = "audio"
                  /\ ~\E type \in commonAudioTypes : StartsWith(mimeType, type)
             THEN \* logged only: the return of null is commented out
                  [inlineData |-> [mimeType |-> mimeType, data |-> base64Data]]
             ELSE [inlineData |-> [mimeType |-> mimeType, data |-> base64Data]]

(***************************************************************************)
(* Messages (message-item.tsx) and the history filter.                     *)
(***************************************************************************)
\* A Message; timestamp is informational and left out
Message(id, text, imageUrl, audioDataUrl, sender, status) ==
    [id |-> id, text |-> text, imageUrl |-> imageUrl, audioDataUrl |-> audioDataUrl,
     sender |-> sender, status |-> status]

\* msg.status of a message or of a history entry (which carries none)
StatusOf(msg) == IF "status" \in DOMAIN msg THEN msg.status ELSE "undefined"

\* The filter predicate that page.tsx and route.ts both apply
HistoryFilterMut(msg) == Truthy(msg.text) /\ StatusOf(msg) # "loading"

HistoryFilter(msg) ==
    Truthy(msg.text) /\ StatusOf(msg) \in {"undefined", "sent", "received"}

\* historyToSend of sendMultimodalMessage, from the messages of its closure
HistoryToSend(msgs) ==
    LET kept == SelectSeq(msgs, HistoryFilter)
    IN  [i \in 1..Len(kept) |->
            [id |-> kept[i].id, text |-> kept[i].text, sender |-> kept[i].sender]]

mapSenderToRole(sender) == IF sender = "user" THEN "user" ELSE "model"

\* formattedHistory of POST
FormattedHistory(chatHistory) ==
    LET kept == SelectSeq(chatHistory, HistoryFilter)
    IN  [i \in 1..Len(kept) |->
            [role |-> mapSenderToRole(kept[i].sender),
             parts |-> <<[text |-> kept[i].text]>>]]

(***************************************************************************)
(* The route POST /api/chat (route.ts).                                    *)
(***************************************************************************)
\* The system prompt and the canned greeting, as tokens
systemPromptText == <<"SYSTEM PROMPT">>
GREETING == <<"Hello! I'm MyDocta... what health concern brought you here?">>

\* The two synthetic turns of the first-turn branch
BootstrapTurns ==
    <<[role |-> "user", parts |-> <<[text |-> systemPromptText]>>],
      [role |-> "model", parts |-> <<[text |-> GREETING]>>]>>

\* reqBody.prompt?.trim()
UserPromptText(reqBody) ==
    IF reqBody.prompt = Undefined THEN Undefined ELSE Trim(reqBody.prompt)

\* The image step of currentParts
ImageStep(reqBody) ==
    IF Truthy(reqBody.imageDataUrl)
    THEN LET imagePart == DataUrlToGenerativePart(reqBody.imageDataUrl, "image")
         IN  IF imagePart # NoPart
             THEN [parts |-> <<imagePart>>, dataValidationError |-> Null]
             ELSE [parts |-> <<>>,
                   dataValidationError |-> <<"Invalid image data format.">>]
    ELSE [parts |-> <<>>, dataValidationError |-> Null]

\* The audio step of currentParts, after the image step
AudioStepMut(reqBody, st) ==
    IF Truthy(reqBody.audioDataUrl) /\ st.dataValidationError = Null
    THEN LET audioPart == DataUrlToGenerativePart(reqBody.audioDataUrl, "audio")
         IN  IF audioPart # NoPart
             THEN [st EXCEPT !.parts = <<audioPart>> \o @]
             ELSE [st EXCEPT !.dataValidationError =
                                <<"Invalid or unsupported audio data format.">>]
    ELSE st

AudioStep(reqBody, st) ==
    IF Truthy(reqBody.audioDataUrl) /\ st.dataValidationError = Null
    THEN LET audioPart == DataUrlToGenerativePart(reqBody.audioDataUrl, "audio")
         IN  IF audioPart # NoPart
             THEN [st EXCEPT !.parts = Append(@, audioPart)]
             ELSE [st EXCEPT !.dataValidationError =
                                <<"Invalid or unsupported audio data format.">>]
    ELSE st

\* The synthesized instruction for a media-only turn
DefaultPromptMut(reqBody) ==
    <<"Process this ">>
    \o (IF Truthy(reqBody.audioDataUrl) THEN <<"audio">> ELSE <<"image">>)
    \o <<" considering our ongoing health consultation context.">>

DefaultPrompt(reqBody) ==
    <<"Process this ">>
    \o (IF Truthy(reqBody.imageDataUrl) THEN <<"image">> ELSE <<"audio">>)
    \o <<" considering our ongoing health consultation context.">>

\* The text step of currentParts, after the audio step
TextStep(reqBody, st) ==
    IF Truthy(UserPromptText(reqBody))
    THEN [st EXCEPT !.parts = Append(@, [text |-> UserPromptText(reqBody)])]
    ELSE IF (Truthy(reqBody.imageDataUrl) \/ Truthy(reqBody.audioDataUrl))
             /\ st.dataValidationError = Null
         THEN [st EXCEPT !.parts = Append(@, [text |-> DefaultPrompt(reqBody)])]
         ELSE st

\* currentParts and dataValidationError of POST
CurrentParts(reqBody) == TextStep(reqBody, AudioStep(reqBody, ImageStep(reqBody)))

\* finalContents of POST
FinalContentsMut(formattedHistory, currentContent) ==
    BootstrapTurns \o formattedHistory \o <<currentContent>>

FinalContents(formattedHistory, currentContent) ==
    IF Len(formattedHistory) = 0
    THEN BootstrapTurns \o <<currentContent>>
    ELSE formattedHistory \o <<currentContent>>

\* No call: the model was not called for the request
NoCall == <<"no call">>

\* An HTTP response of the route, with the contents the model was called with
JsonResponse(status, field, value, contents) ==
    [ok |-> status \in 200..299, status |-> status,
     json |-> [field |-> field, value |-> value], contents |-> contents]

MODEL_NAME == <<"gemini-1.5-flash-latest">>

\* errorMessage.includes(phrase), on a message made of phrases
Includes(errorMessage, phrase) == \E i \in 1..Len(errorMessage) : errorMessage[i] = phrase

\* The catch-all error handling of POST
CatchAll(errorMessage, contents) ==
    IF Includes(errorMessage, "404 Not Found") \/ Includes(errorMessage, "models/")
    THEN JsonResponse(404, "error",
                      <<"Model '">> \o MODEL_NAME \o <<"' not found/inaccessible... (">>
                      \o errorMessage \o <<")">>, contents)
    ELSE IF Includes(errorMessage, "API Key not valid")
              \/ Includes(errorMessage, "permission")
    THEN JsonResponse(403, "error",
                      <<"API Key invalid/lacks permission... (">> \o errorMessage
                      \o <<")">>, contents)
    ELSE JsonResponse(500, "error",
                      <<"An error occurred while processing your request.">>, contents)

\* The response processing with the test of the text before that of the
\* finish reason
ProcessResultTextFirstMut(gemini, contents) ==
    IF gemini.kind = "throw"
    THEN CatchAll(gemini.message, contents)
    ELSE IF gemini.kind = "noresponse"
    THEN JsonResponse(500, "error",
                      <<"Failed to get valid response structure from AI.">>, contents)
    ELSE IF Truthy(gemini.text)
    THEN JsonResponse(200, "response", gemini.text, contents)
    ELSE IF gemini.finishReason # "undefined" /\ gemini.finishReason # "STOP"
    THEN JsonResponse(400, "error",
                      <<"Response was stopped or blocked due to: ">>
                      \o (IF gemini.finishReason = "SAFETY"
                          THEN <<"Safety concerns">> ELSE <<gemini.finishReason>>)
                      \o <<".">>, contents)
    ELSE JsonResponse(500, "error", <<"AI returned an empty response content.">>,
                      contents)

\* The response processing of POST, after generateContent returned or threw
ProcessResultMut(gemini, contents) ==
    IF gemini.kind = "throw"
    THEN CatchAll(gemini.message, contents)
    ELSE IF gemini.kind = "noresponse"
    THEN JsonResponse(500, "error",
                      <<"Failed to get valid response structure from AI.">>, contents)
    ELSE IF gemini.finishReason # "undefined" /\ gemini.finishReason # "STOP"
    THEN JsonResponse(400, "error",
                      <<"Response was stopped or blocked due to: ">>
                      \o (IF gemini.finishReason = "SAFETY"
                          THEN <<"Safety concerns">> ELSE <<gemini.finishReason>>)
                      \o <<".">>, contents)
    ELSE JsonResponse(200, "response",
                      IF Truthy(gemini.text) THEN gemini.text ELSE <<>>, contents)

ProcessResult(gemini, contents) ==
    IF gemini.kind = "throw"
    THEN CatchAll(gemini.message, contents)
    ELSE IF gemini.kind = "noresponse"
    THEN JsonResponse(500, "error",
                      <<"Failed to get valid response structure from AI.">>, contents)
    ELSE IF gemini.finishReason # "undefined" /\ gemini.finishReason # "STOP"
    THEN JsonResponse(400, "error",
                      <<"Response was stopped or blocked due to: ">>
                      \o (IF gemini.finishReason = "SAFETY"
                          THEN <<"Safety concerns">> ELSE <<gemini.finishReason>>)
                      \o <<".">>, contents)
    ELSE IF Truthy(gemini.text)
    THEN JsonResponse(200, "response", gemini.text, contents)
    ELSE JsonResponse(500, "error", <<"AI returned an empty response content.">>,
                      contents)

\* POST: the response to a request body, given the environment of the call: no
\* API key configured, or what generateContent does if it is called
POST(reqBody, gemini) ==
    IF gemini.kind = "nokey"
    THEN JsonResponse(500, "error", <<"API Key not configured.">>, NoCall)
    ELSE IF ~Truthy(UserPromptText(reqBody)) /\ ~Truthy(reqBody.imageDataUrl)
          /\ ~Truthy(reqBody.audioDataUrl)
    THEN JsonResponse(400, "error",
                      <<"No prompt text, image, or audio data provided.">>, NoCall)
    ELSE LET cur == CurrentParts(reqBody)
         IN  IF cur.dataValidationError # Null
             THEN JsonResponse(400, "error", cur.dataValidationError, NoCall)
             ELSE IF Len(cur.parts) = 0
             THEN JsonResponse(500, "error",
                               <<"Failed to construct valid content parts.">>, NoCall)
             ELSE ProcessResult(gemini,
                      FinalContents(FormattedHistory(reqBody.history),
                                    [role |-> "user", parts |-> cur.parts]))

(***************************************************************************)
(* State.                                                                  *)
(***************************************************************************)
VARIABLES
    messages,         \* ChatPage: the conversation (useLocalStorage)
    isLoading,        \* ChatPage: the busy flag
    reportContent,    \* ChatPage: the report, or Null
    isReportVisible,  \* ChatPage: whether the report is shown
    flights,          \* the calls of sendMultimodalMessage suspended at an await
    reads,            \* the FileReader reads in progress, with their callbacks' closures
    isRecording,      \* ChatInput: the recording flag
    recorder,         \* ChatInput: the MediaRecorder and the closure of its onstop
    nextId,           \* the ids crypto.randomUUID has handed out
    submits,          \* accepted submissions so far
    sessionTurns,     \* accepted submissions since the session began
    splitInput,       \* splitter specification: the fragments of the response text
    splitOutput,      \* splitter specification: the result of the split
    routeReq,         \* route specification: the body of the request
    routeEnv,         \* route specification: the API key and what generateContent does
    routeRes,         \* route specification: the response of POST
    chatInput,        \* recorder specification: the state and refs of ChatInput
    player            \* player specification: the state of AudioPlayer and its audio element

vars == <<messages, isLoading, reportContent, isReportVisible, flights, reads,
          isRecording, recorder, nextId, submits, sessionTurns,
          splitInput, splitOutput, routeReq, routeEnv, routeRes, chatInput, player>>

pageVars == <<messages, isLoading, reportContent, isReportVisible, flights,
              nextId, submits, sessionTurns>>

splitVars == <<splitInput, splitOutput>>

routeVars == <<routeReq, routeEnv, routeRes>>

\* A closure of one render of ChatPage: the values its handlers read
Closure == [isLoading |-> isLoading, messages |-> messages]

NoRecorder == [state |-> "inactive"]

\* The closures of earlier renders that a pending callback still holds
PendingClosures == Len(reads) + (IF recorder.state = "inactive" THEN 0 ELSE 1)

\* No split yet
NotSplit == [pending |-> TRUE]

\* ChatInput after its first render: the prop isLoading, the state
\* isRecording, whether the mic button is held down, the calls of
\* getUserMedia made and pending, streamRef.current and mediaRecorderRef.current
\* (0 for null), the streams whose tracks are live, the recorders by the
\* number of their stream, and the calls of onSendAudio
ChatInputInit ==
    [isLoading |-> FALSE, isRecording |-> FALSE, held |-> FALSE,
     calls |-> 0, pending |-> 0, streamRef |-> 0, recorderRef |-> 0,
     live |-> {}, recorders |-> [id \in 1..MaxRecordings |-> "none"],
     sent |-> 0]

\* AudioPlayer after its first render and its effect: the state of the
\* component, the currentTime of the audio element, and the isSeeking of the
\* handleTimeUpdate that the effect registered as the timeupdate listener
PlayerInit ==
    [isPlaying |-> FALSE, currentTime |-> 0, duration |-> 0,
     isLoadingMetadata |-> TRUE, isSeeking |-> FALSE,
     audioTime |-> 0, listenerIsSeeking |-> FALSE]

\* No request to the route, and no response of it
NoRequest == [none |-> TRUE]
NoResponse == [none |-> TRUE]

Init ==
    /\ messages = <<>>
    /\ isLoading = FALSE
    /\ reportContent = Null
    /\ isReportVisible = FALSE
    /\ flights = {}
    /\ reads = <<>>
    /\ isRecording = FALSE
    /\ recorder = NoRecorder
    /\ nextId = 0
    /\ submits = 0
    /\ sessionTurns = 0
    /\ splitInput = <<>>
    /\ splitOutput = NotSplit
    /\ routeReq = NoRequest
    /\ routeEnv = NoRequest
    /\ routeRes = NoResponse
    /\ chatInput = ChatInputInit
    /\ player = PlayerInit

(***************************************************************************)
(* Inputs of the environment.                                              *)
(***************************************************************************)
\* What the user may have typed when handleSend runs
TypedTexts == {<<>>, <<" ">>, <<"h", "i">>, <<" ", "h", "i">>}

\* The types of the files the user may pick
FileTypes == {MIME_IMAGE_PNG, MIME_TEXT_PLAIN}

\* The base64 payload of a picked file or of a recording
PAYLOAD == <<"Q">>

\* Response texts of the model: plain text, a report with text on both sides,
\* on one side, on neither side, an empty report, misplaced or missing markers,
\* and an END marker that overlaps the START marker
ResponseTexts ==
    {<<"o", "k", " ">>,
     <<"a", " ">> \o REPORT_START_MARKER \o <<" ", "r", "\n">> \o REPORT_END_MARKER
        \o <<" ", "b">>,
     <<"a">> \o REPORT_START_MARKER \o <<"r">> \o REPORT_END_MARKER \o <<" ">>,
     <<"\n">> \o REPORT_START_MARKER \o <<"r">> \o REPORT_END_MARKER \o <<"b">>,
     REPORT_START_MARKER \o <<"r">> \o REPORT_END_MARKER,
     REPORT_START_MARKER \o REPORT_END_MARKER,
     REPORT_END_MARKER \o <<"x">> \o REPORT_START_MARKER,
     <<"a">> \o REPORT_START_MARKER \o <<"r">>,
     REPORT_START_MARKER \o END_TAIL}

\* What generateContent may do: a candidate that stopped with a text, a
\* candidate without text (blocked, stopped, or with no finish reason and an
\* empty text), or an exception
GeminiOutcomes ==
    {[kind |-> "candidate", finishReason |-> "STOP", text |-> t] : t \in ResponseTexts}
    \cup {[kind |-> "candidate", finishReason |-> "SAFETY", text |-> Undefined],
          [kind |-> "candidate", finishReason |-> "STOP", text |-> Undefined],
          [kind |-> "candidate", finishReason |-> "undefined", text |-> <<>>],
          [kind |-> "throw", message |-> <<"fetch failed">>]}

(***************************************************************************)
(* sendMultimodalMessage (page.tsx), up to its first await.                *)
(***************************************************************************)
\* payload.text?.trim()
TrimmedText(payload) ==
    IF payload.text = Undefined THEN Undefined ELSE Trim(payload.text)

\* The guard of sendMultimodalMessage, with the isLoading of its closure
Rejects(payload, closure) ==
    \/ ~Truthy(TrimmedText(payload)) /\ ~Truthy(payload.imageDataUrl)
          /\ ~Truthy(payload.audioDataUrl)
    \/ closure.isLoading

\* The text of the placeholder
ThinkingText(payload) ==
    IF Truthy(payload.imageDataUrl) THEN <<"Processing image...">>
    ELSE IF Truthy(payload.audioDataUrl) THEN <<"Processing audio...">>
    ELSE <<"Thinking...">>

newUserMessage(payload, id) ==
    Message(id, IF Truthy(payload.text) THEN payload.text ELSE <<>>,
            payload.imageDataUrl, payload.audioDataUrl, "user", "sent")

thinkingMessageMut(payload, id) ==
    Message(id, ThinkingText(payload), Undefined, Undefined, "ai", "received")

thinkingMessage(payload, id) ==
    Message(id, ThinkingText(payload), Undefined, Undefined, "ai", "loading")

\* The body of the request with a history that includes the new user message
RequestBodyMut(payload, closure) ==
    [prompt |-> newUserMessage(payload, 0).text,
     imageDataUrl |-> payload.imageDataUrl,
     audioDataUrl |-> payload.audioDataUrl,
     history |-> HistoryToSend(closure.messages
                               \o <<newUserMessage(payload, nextId + 1)>>)]

\* The body of the request, built from the messages of the closure
RequestBody(payload, closure) ==
    [prompt |-> newUserMessage(payload, 0).text,
     imageDataUrl |-> payload.imageDataUrl,
     audioDataUrl |-> payload.audioDataUrl,
     history |-> HistoryToSend(closure.messages)]

\* sendMultimodalMessage called with a payload from a handler of the given
\* closure: returns at its guard, or appends the user message and the
\* placeholder, sends the request and suspends at fetch
SendMultimodalMessage(payload, closure) ==
    IF Rejects(payload, closure)
    THEN UNCHANGED pageVars
    ELSE /\ submits < MaxSubmits
         /\ isLoading' = TRUE
         /\ messages' = messages \o <<newUserMessage(payload, nextId + 1),
                                      thinkingMessage(payload, nextId + 2)>>
         /\ flights' = flights \cup
                {[thinkingMessageId |-> nextId + 2,
                  conv |-> closure.messages,
                  body |-> RequestBody(payload, closure),
                  pc |-> "fetch",
                  response |-> NoResponse,
                  turn |-> sessionTurns + 1]}
         /\ nextId' = nextId + 2
         /\ submits' = submits + 1
         /\ sessionTurns' = sessionTurns + 1
         /\ UNCHANGED <<reportContent, isReportVisible>>

TextPayload(text) ==
    [text |-> text, imageDataUrl |-> Undefined, audioDataUrl |-> Undefined]
ImagePayload(imageDataUrl) ==
    [text |-> Undefined, imageDataUrl |-> imageDataUrl, audioDataUrl |-> Undefined]
AudioPayload(audioDataUrl) ==
    [text |-> Undefined, imageDataUrl |-> Undefined, audioDataUrl |-> audioDataUrl]

(***************************************************************************)
(* Handlers of ChatInput and ChatPage that the user triggers.  A handler   *)
(* the user triggers belongs to the latest render, so its closure holds    *)
(* the current state.                                                      *)
(***************************************************************************)
\* handleSend -> handleSendMessage -> sendMultimodalMessage
HandleSend(inputValue) ==
    /\ IF Truthy(Trim(inputValue)) /\ ~isLoading
       THEN SendMultimodalMessage(TextPayload(Trim(inputValue)), Closure)
       ELSE UNCHANGED pageVars
    /\ UNCHANGED <<reads, isRecording, recorder, splitVars, routeVars, chatInput, player>>

\* handleImageFileChange without the test of the file's type
HandleImageSelectMut(fileType) ==
    /\ PendingClosures < MaxClosures
    /\ IF ~isLoading
       THEN reads' = Append(reads, [kind |-> "image", type |-> fileType,
                                    closure |-> Closure])
       ELSE UNCHANGED reads
    /\ UNCHANGED <<pageVars, isRecording, recorder, splitVars, routeVars, chatInput, player>>

\* handleImageFileChange -> handleImageSelect: starts the read of the file
HandleImageSelect(fileType) ==
    /\ PendingClosures < MaxClosures
    /\ IF StartsWith(fileType, <<"i", "m", "a", "g", "e", "/">>) /\ ~isLoading
       THEN reads' = Append(reads, [kind |-> "image", type |-> fileType,
                                    closure |-> Closure])
       ELSE UNCHANGED reads
    /\ UNCHANGED <<pageVars, isRecording, recorder, splitVars, routeVars, chatInput, player>>

\* Removal of element i of a sequence
RemoveAt(seq, i) == SubSeq(seq, 1, i - 1) \o SubSeq(seq, i + 1, Len(seq))

\* reader.onload of handleImageSelect / reader.onloadend of handleRecordingStop
\* (ok), or reader.onerror (not ok).  The callback belongs to the render in
\* which the read was started: it calls the sendMultimodalMessage of that closure
ReadCompletes(i, ok) ==
    /\ i \in 1..Len(reads)
    /\ reads' = RemoveAt(reads, i)
    /\ IF ~ok
       THEN UNCHANGED pageVars
       ELSE IF reads[i].kind = "image"
       THEN SendMultimodalMessage(
                ImagePayload(ReadAsDataURL(reads[i].type, PAYLOAD)), reads[i].closure)
       ELSE \* handleSendAudio of the closure
            IF reads[i].closure.isLoading
            THEN UNCHANGED pageVars
            ELSE SendMultimodalMessage(
                     AudioPayload(ReadAsDataURL(reads[i].type, PAYLOAD)),
                     reads[i].closure)
    /\ UNCHANGED <<isRecording, recorder, splitVars, routeVars, chatInput, player>>

\* startRecording (mic button pressed): the recorder's onstop is the
\* handleRecordingStop of this render
StartRecording ==
    /\ PendingClosures < MaxClosures
    /\ ~isLoading /\ ~isRecording
    /\ recorder' = [state |-> "recording", closure |-> Closure]
    /\ isRecording' = TRUE
    /\ UNCHANGED <<pageVars, reads, splitVars, routeVars, chatInput, player>>

\* stopRecording (mic button released)
StopRecording ==
    /\ recorder.state = "recording" \/ isRecording
    /\ recorder' = IF recorder.state = "recording"
                   THEN [recorder EXCEPT !.state = "stopping"] ELSE recorder
    /\ isRecording' = FALSE
    /\ UNCHANGED <<pageVars, reads, splitVars, routeVars, chatInput, player>>

\* handleRecordingStop (the recorder's stop event): nothing recorded, or the
\* read of the recorded blob starts
HandleRecordingStop(chunks) ==
    /\ recorder.state = "stopping"
    /\ recorder' = NoRecorder
    /\ reads' = IF chunks = 0 THEN reads
                ELSE Append(reads, [kind |-> "audio", type |-> MIME_AUDIO_WEBM,
                                    closure |-> recorder.closure])
    /\ UNCHANGED <<pageVars, isRecording, splitVars, routeVars, chatInput, player>>

(***************************************************************************)
(* sendMultimodalMessage after its awaits.                                 *)
(***************************************************************************)
WithoutThinkingMut(msgs, f) ==
    SelectSeq(msgs, LAMBDA msg : msg.status # "loading")

WithoutThinking(msgs, f) ==
    SelectSeq(msgs, LAMBDA msg : msg.id # f.thinkingMessageId)

\* The catch and finally blocks, with the report cleared on a failure
CatchErrorClearsMut(f, message) ==
    /\ messages' = Append(WithoutThinking(messages, f),
                          Message(nextId + 1, <<"Sorry, error: ">> \o message,
                                  Undefined, Undefined, "ai", "error"))
    /\ nextId' = nextId + 1
    /\ isLoading' = FALSE
    /\ reportContent' = Null
    /\ isReportVisible' = FALSE

\* The catch and finally blocks
CatchErrorMut(f, message) ==
    /\ messages' = Append(messages,
                          Message(nextId + 1, <<"Sorry, error: ">> \o message,
                                  Undefined, Undefined, "ai", "error"))
    /\ nextId' = nextId + 1
    /\ isLoading' = FALSE
    /\ UNCHANGED <<reportContent, isReportVisible>>

CatchError(f, message) ==
    /\ messages' = Append(WithoutThinking(messages, f),
                          Message(nextId + 1, <<"Sorry, error: ">> \o message,
                                  Undefined, Undefined, "ai", "error"))
    /\ nextId' = nextId + 1
    /\ isLoading' = FALSE
    /\ UNCHANGED <<reportContent, isReportVisible>>

\* fetch resolves with the response of the route; the placeholder is removed
\* and the call suspends at response.json()
FetchResolves(f, gemini) ==
    /\ f \in flights /\ f.pc = "fetch"
    /\ messages' = WithoutThinking(messages, f)
    /\ flights' = (flights \ {f}) \cup
                    {[f EXCEPT !.pc = "json", !.response = POST(f.body, gemini)]}
    /\ UNCHANGED <<isLoading, reportContent, isReportVisible, nextId, submits,
                   sessionTurns, reads, isRecording, recorder, splitVars, routeVars, chatInput, player>>

\* The reason phrase of a status, as response.statusText gives it
StatusText(status) ==
    IF status = 502 THEN <<"Bad Gateway">>
    ELSE IF status = 413 THEN <<"Payload Too Large">>
    ELSE <<>>

\* Responses to the fetch that the route handler did not write: an error page
\* that is not JSON, a JSON error body without an error field, a success
\* status with a body that is not JSON, with an empty response field, or with
\* no response field
OtherResponses ==
    {[ok |-> FALSE, status |-> 502,
      json |-> [field |-> "unparsable", value |-> Undefined], contents |-> NoCall],
     [ok |-> FALSE, status |-> 413,
      json |-> [field |-> "none", value |-> Undefined], contents |-> NoCall],
     [ok |-> TRUE, status |-> 200,
      json |-> [field |-> "unparsable", value |-> Undefined], contents |-> NoCall],
     [ok |-> TRUE, status |-> 200,
      json |-> [field |-> "response", value |-> <<>>], contents |-> NoCall],
     [ok |-> TRUE, status |-> 200,
      json |-> [field |-> "none", value |-> Undefined], contents |-> NoCall]}

\* fetch resolves with a response that did not come from the route handler
FetchResolvesOther(f, response) ==
    /\ f \in flights /\ f.pc = "fetch"
    /\ messages' = WithoutThinking(messages, f)
    /\ flights' = (flights \ {f}) \cup
                    {[f EXCEPT !.pc = "json", !.response = response]}
    /\ UNCHANGED <<isLoading, reportContent, isReportVisible, nextId, submits,
                   sessionTurns, reads, isRecording, recorder, splitVars, routeVars, chatInput, player>>

\* The message of the TypeError that a failed fetch rejects with
FETCH_ERROR == <<"Failed to fetch">>

\* The message of the SyntaxError that response.json() rejects with
JSON_ERROR == <<"Unexpected token '<' is not valid JSON">>

\* fetch rejects, and the request is sent again
FetchRejectsMut(f) ==
    /\ f \in flights /\ f.pc = "fetch"
    /\ CatchError(f, FETCH_ERROR)
    /\ flights' = flights
    /\ UNCHANGED <<submits, sessionTurns, reads, isRecording, recorder, splitVars, routeVars, chatInput, player>>

\* fetch rejects (network failure)
FetchRejects(f) ==
    /\ f \in flights /\ f.pc = "fetch"
    /\ CatchError(f, FETCH_ERROR)
    /\ flights' = flights \ {f}
    /\ UNCHANGED <<submits, sessionTurns, reads, isRecording, recorder, splitVars, routeVars, chatInput, player>>

\* The messages of the report branch: pre-text and post-text, if not empty
ReportMessagesMut(split, id) ==
    <<Message(id + 1, split.regularResponse, Undefined, Undefined, "ai", "received"),
      Message(id + 2, split.postReportText, Undefined, Undefined, "ai", "received")>>

ReportMessages(split, id) ==
    (IF Truthy(split.regularResponse)
     THEN <<Message(id + 1, split.regularResponse, Undefined, Undefined, "ai", "received")>>
     ELSE <<>>)
    \o (IF Truthy(split.postReportText)
        THEN <<Message(id + (IF Truthy(split.regularResponse) THEN 2 ELSE 1),
                       split.postReportText, Undefined, Undefined, "ai",
                       "received")>>
        ELSE <<>>)

\* The success branch, for a truthy response text
DeliverMut(aiResponseText) ==
    LET split == SplitResponse(aiResponseText)
    IN  /\ IF split.isReport
           THEN /\ reportContent' = split.extractedReport
                /\ isReportVisible' = FALSE
                /\ messages' = messages \o ReportMessages(split, nextId)
           ELSE /\ reportContent' = Null
                /\ messages' = Append(messages,
                                 Message(nextId + 1, aiResponseText, Undefined,
                                         Undefined, "ai", "received"))
                /\ UNCHANGED isReportVisible
        /\ nextId' = nextId + (Len(messages') - Len(messages))
        /\ UNCHANGED isLoading

Deliver(aiResponseText) ==
    LET split == SplitResponse(aiResponseText)
    IN  /\ IF split.isReport
           THEN /\ reportContent' = split.extractedReport
                /\ isReportVisible' = FALSE
                /\ messages' = messages \o ReportMessages(split, nextId)
           ELSE /\ reportContent' = Null
                /\ messages' = Append(messages,
                                 Message(nextId + 1, aiResponseText, Undefined,
                                         Undefined, "ai", "received"))
                /\ UNCHANGED isReportVisible
        /\ nextId' = nextId + (Len(messages') - Len(messages))
        /\ isLoading' = FALSE

\* The initial errorMsg of the non-OK branch
DefaultErrorMsg(response) ==
    <<"API request failed: ">> \o StatusText(response.status)
    \o <<" (", ToString(response.status), ")">>

\* The message of the error thrown for a falsy result.response
EMPTY_RESPONSE_ERROR == <<"Received an empty response from the AI.">>

\* response.json() settles: the error branch of a non-OK response (with or
\* without a body that parses), the rejection on a success body that does not
\* parse, or the processing of result.response
ResponseJson(f) ==
    /\ f \in flights /\ f.pc = "json"
    /\ flights' = flights \ {f}
    /\ LET json == f.response.json
           aiResponseText == IF json.field = "response" THEN json.value ELSE Undefined
       IN  IF ~f.response.ok
           THEN CatchError(f, IF json.field = "error" /\ Truthy(json.value)
                              THEN json.value
                              ELSE DefaultErrorMsg(f.response))
           ELSE IF json.field = "unparsable"
           THEN CatchError(f, JSON_ERROR)
           ELSE IF Truthy(aiResponseText)
           THEN Deliver(aiResponseText)
           ELSE CatchError(f, EMPTY_RESPONSE_ERROR)
    /\ UNCHANGED <<submits, sessionTurns, reads, isRecording, recorder, splitVars, routeVars, chatInput, player>>

(***************************************************************************)
(* The other handlers of ChatPage.                                         *)
(***************************************************************************)
\* handleNewSession, with the answer to confirm()
HandleNewSessionMut(confirmed) ==
    /\ IF confirmed
       THEN /\ messages' = <<>>
            /\ isReportVisible' = FALSE
            /\ sessionTurns' = 0
            /\ UNCHANGED reportContent
       ELSE UNCHANGED <<messages, reportContent, isReportVisible, sessionTurns>>
    /\ UNCHANGED <<isLoading, flights, nextId, submits, reads, isRecording, recorder,
                   splitVars, routeVars, chatInput, player>>

HandleNewSession(confirmed) ==
    /\ IF confirmed
       THEN /\ messages' = <<>>
            /\ reportContent' = Null
            /\ isReportVisible' = FALSE
            /\ sessionTurns' = 0
       ELSE UNCHANGED <<messages, reportContent, isReportVisible, sessionTurns>>
    /\ UNCHANGED <<isLoading, flights, nextId, submits, reads, isRecording, recorder,
                   splitVars, routeVars, chatInput, player>>

\* The Show/Hide button of the report area, rendered when reportContent is truthy
ToggleReport ==
    /\ Truthy(reportContent)
    /\ isReportVisible' = ~isReportVisible
    /\ UNCHANGED <<messages, isLoading, reportContent, flights, nextId, submits,
                   sessionTurns, reads, isRecording, recorder, splitVars, routeVars, chatInput, player>>

\* The page is reloaded: the conversation is restored from local storage, the
\* rest of the state starts anew, and the suspended calls and reads are gone
Reload ==
    /\ isLoading' = FALSE
    /\ reportContent' = Null
    /\ isReportVisible' = FALSE
    /\ flights' = {}
    /\ reads' = <<>>
    /\ isRecording' = FALSE
    /\ recorder' = NoRecorder
    /\ UNCHANGED <<messages, nextId, submits, sessionTurns, splitVars, routeVars, chatInput, player>>

Next ==
    \/ \E inputValue \in TypedTexts : HandleSend(inputValue)
    \/ \E fileType \in FileTypes : HandleImageSelect(fileType)
    \/ \E i \in 1..MaxClosures, ok \in BOOLEAN : ReadCompletes(i, ok)
    \/ StartRecording
    \/ StopRecording
    \/ \E chunks \in 0..1 : HandleRecordingStop(chunks)
    \/ \E f \in flights, gemini \in GeminiOutcomes : FetchResolves(f, gemini)
    \/ \E f \in flights, response \in OtherResponses : FetchResolvesOther(f, response)
    \/ \E f \in flights : FetchRejects(f)
    \/ \E f \in flights : ResponseJson(f)
    \/ \E confirmed \in BOOLEAN : HandleNewSession(confirmed)
    \/ ToggleReport
    \/ Reload

Spec == Init /\ [][Next]_vars

(***************************************************************************)
(* The page when every gateway call completes: a pending fetch settles and *)
(* a pending response.json() settles.                                      *)
(***************************************************************************)
\* The fetch of a suspended call settles
FetchSettles ==
    \E f \in flights :
        \/ FetchRejects(f)
        \/ \E gemini \in GeminiOutcomes : FetchResolves(f, gemini)
        \/ \E response \in OtherResponses : FetchResolvesOther(f, response)

\* response.json() of a suspended call settles
JsonSettles == \E f \in flights : ResponseJson(f)

\* JsonSettles is enabled exactly when a call is suspended at response.json()
JsonPending == \E f \in flights : f.pc = "json"

\* Weak fairness of both; that of JsonSettles is written out, with JsonPending
\* for ENABLED <<JsonSettles>>_vars
FairSpec ==
    /\ Spec
    /\ WF_vars(FetchSettles)
    /\ ([]<>(~JsonPending) \/ []<><<JsonSettles>>_vars)

(***************************************************************************)
(* The splitter specification: the response splitter as a function, on     *)
(* response texts concatenated from fragments.                             *)
(***************************************************************************)
Fragments ==
    {REPORT_START_MARKER, REPORT_END_MARKER, END_TAIL, <<" ", "a", "\n">>, <<" ">>}

FragmentSeqs == UNION {[1..n -> Fragments] : n \in 0..MaxFrags}

RECURSIVE Flatten(_)
Flatten(frags) ==
    IF frags = <<>> THEN <<>> ELSE Head(frags) \o Flatten(Tail(frags))

SplitInit ==
    /\ messages = <<>>
    /\ isLoading = FALSE
    /\ reportContent = Null
    /\ isReportVisible = FALSE
    /\ flights = {}
    /\ reads = <<>>
    /\ isRecording = FALSE
    /\ recorder = NoRecorder
    /\ nextId = 0
    /\ submits = 0
    /\ sessionTurns = 0
    /\ splitInput \in FragmentSeqs
    /\ splitOutput = NotSplit
    /\ routeReq = NoRequest
    /\ routeEnv = NoRequest
    /\ routeRes = NoResponse
    /\ chatInput = ChatInputInit
    /\ player = PlayerInit

\* The split of the success branch applied to the text (a truthy text: an
\* empty one does not reach the split)
Split ==
    /\ splitOutput = NotSplit
    /\ Truthy(Flatten(splitInput))
    /\ splitOutput' = SplitResponse(Flatten(splitInput))
    /\ UNCHANGED <<pageVars, reads, isRecording, recorder, splitInput, routeVars, chatInput, player>>

SplitNext == Split

SplitSpec == SplitInit /\ [][SplitNext]_vars

(***************************************************************************)
(* The route specification: POST as a function of the request body and of  *)
(* its environment (the API key, what generateContent does), next to the   *)
(* file picker of the input component.                                     *)
(***************************************************************************)
\* Prompts: absent, empty, blank, a text with blanks around it
RoutePrompts == {Undefined, <<>>, <<" ">>, <<" ", "h", "i", " ">>}

\* Image values: absent, empty, a PNG data URL, a data URL of another type,
\* a value that is no data URL, a data URL without data, and a data URL whose
\* data is not base64
RouteImages ==
    {Undefined, <<>>,
     ReadAsDataURL(MIME_IMAGE_PNG, PAYLOAD),
     ReadAsDataURL(MIME_TEXT_PLAIN, PAYLOAD),
     PAYLOAD,
     ReadAsDataURL(MIME_IMAGE_PNG, <<>>),
     ReadAsDataURL(MIME_IMAGE_PNG, <<"!">>)}

\* Audio values: absent, a WebM data URL, a data URL of another type, a value
\* that is no data URL, and a data URL whose data is not base64
RouteAudios ==
    {Undefined,
     ReadAsDataURL(MIME_AUDIO_WEBM, PAYLOAD),
     ReadAsDataURL(MIME_TEXT_PLAIN, PAYLOAD),
     PAYLOAD,
     ReadAsDataURL(MIME_AUDIO_WEBM, <<"!">>)}

\* Histories as the page sends them: empty, or one earlier user text
RouteHistories == {<<>>, <<[id |-> 1, text |-> <<"h", "i">>, sender |-> "user"]>>}

RouteRequests ==
    [prompt : RoutePrompts, imageDataUrl : RouteImages, audioDataUrl : RouteAudios,
     history : RouteHistories]

\* Messages of the errors that generateContent throws, as the phrases the
\* catch-all looks for: a network failure, a missing model, a rejected
\* credential, a denied permission, and the last two in a message that also
\* names the request URL (".../models/<name>:generateContent")
ThrownMessages ==
    {<<"fetch failed">>,
     <<"404 Not Found">>,
     <<"models/", "fetch failed">>,
     <<"API Key not valid">>,
     <<"permission">>,
     <<"models/", "API Key not valid">>,
     <<"models/", "permission">>}

\* The environment of a call: no API key, or what generateContent does (no
\* response, an exception, a first candidate with or without a finish reason
\* and with or without text)
RouteEnvs ==
    {[kind |-> "nokey"], [kind |-> "noresponse"]}
    \cup {[kind |-> "throw", message |-> m] : m \in ThrownMessages}
    \cup {[kind |-> "candidate", finishReason |-> r, text |-> t] :
            r \in {"undefined", "STOP", "SAFETY", "MAX_TOKENS"},
            t \in {Undefined, <<>>, <<"o", "k", " ">>}}

RouteInit ==
    /\ messages = <<>>
    /\ isLoading = FALSE
    /\ reportContent = Null
    /\ isReportVisible = FALSE
    /\ flights = {}
    /\ reads = <<>>
    /\ isRecording = FALSE
    /\ recorder = NoRecorder
    /\ nextId = 0
    /\ submits = 0
    /\ sessionTurns = 0
    /\ splitInput = <<>>
    /\ splitOutput = NotSplit
    /\ routeReq \in RouteRequests
    /\ routeEnv \in RouteEnvs
    /\ routeRes = NoResponse
    /\ chatInput = ChatInputInit
    /\ player = PlayerInit

\* The route handles the request
RoutePOST ==
    /\ routeRes = NoResponse
    /\ routeRes' = POST(routeReq, routeEnv)
    /\ UNCHANGED <<pageVars, reads, isRecording, recorder, splitVars, routeReq,
                   routeEnv, chatInput, player>>

\* The route handles the request, or the input component is given a file
RouteNext ==
    \/ RoutePOST
    \/ \E fileType \in FileTypes : HandleImageSelect(fileType)

RouteSpec == RouteInit /\ [][RouteNext]_vars

(***************************************************************************)
(* The recorder specification: the recording lifecycle of ChatInput        *)
(* (chat-input.tsx) on its own, with the refs it shares between            *)
(* recordings.  onSendAudio is counted, not followed into the page.        *)
(***************************************************************************)
\* cleanupStream: stops the tracks of streamRef.current and clears the ref.  A
\* recorder that is recording from these tracks stops when they end
cleanupStream(c) ==
    IF c.streamRef = 0
    THEN c
    ELSE [c EXCEPT !.live = @ \ {c.streamRef},
                   !.recorders[c.streamRef] =
                        IF @ = "recording" THEN "stopping" ELSE @,
                   !.streamRef = 0]

\* startRecording up to its await: returns at the guard or calls getUserMedia
startRecording(c) ==
    IF c.isLoading \/ c.isRecording
    THEN c
    ELSE [c EXCEPT !.calls = @ + 1, !.pending = @ + 1]

\* stopRecording
stopRecording(c) ==
    IF c.recorderRef # 0 /\ c.recorders[c.recorderRef] = "recording"
    THEN [c EXCEPT !.recorders[c.recorderRef] = "stopping", !.isRecording = FALSE]
    ELSE IF c.isRecording
    THEN cleanupStream([c EXCEPT !.isRecording = FALSE])
    ELSE c

RecorderInit ==
    /\ messages = <<>>
    /\ isLoading = FALSE
    /\ reportContent = Null
    /\ isReportVisible = FALSE
    /\ flights = {}
    /\ reads = <<>>
    /\ isRecording = FALSE
    /\ recorder = NoRecorder
    /\ nextId = 0
    /\ submits = 0
    /\ sessionTurns = 0
    /\ splitInput = <<>>
    /\ splitOutput = NotSplit
    /\ routeReq = NoRequest
    /\ routeEnv = NoRequest
    /\ routeRes = NoResponse
    /\ chatInput = ChatInputInit
    /\ player = PlayerInit

\* The variables of the other specifications
notChatInput ==
    <<pageVars, reads, isRecording, recorder, splitVars, routeVars, player>>

\* The parent renders ChatInput with another value of isLoading
PropIsLoading ==
    /\ chatInput' = [chatInput EXCEPT !.isLoading = ~@]
    /\ UNCHANGED notChatInput

\* The mic button is pressed (it is disabled while isLoading)
handleMicMouseDown ==
    /\ ~chatInput.held /\ ~chatInput.isLoading
    /\ chatInput.isRecording \/ chatInput.calls < MaxRecordings
    /\ chatInput' = [startRecording(chatInput) EXCEPT !.held = TRUE]
    /\ UNCHANGED notChatInput

\* The mic button is released, or the pointer leaves it
handleMicMouseUp ==
    /\ chatInput.held \/ chatInput.isRecording
    /\ chatInput' = [stopRecording(chatInput) EXCEPT !.held = FALSE]
    /\ UNCHANGED notChatInput

\* getUserMedia resolves with a new stream: startRecording after its await
getUserMediaResolves ==
    /\ chatInput.pending > 0
    /\ LET id == Cardinality({i \in 1..MaxRecordings :
                                 chatInput.recorders[i] # "none"}) + 1
       IN  chatInput' = [chatInput EXCEPT !.pending = @ - 1,
                                          !.streamRef = id,
                                          !.live = @ \cup {id},
                                          !.recorderRef = id,
                                          !.recorders[id] = "recording",
                                          !.isRecording = TRUE]
    /\ UNCHANGED notChatInput

\* getUserMedia rejects: the catch of startRecording
getUserMediaRejects ==
    /\ chatInput.pending > 0
    /\ chatInput' = cleanupStream([chatInput EXCEPT !.pending = @ - 1,
                                                    !.isRecording = FALSE])
    /\ UNCHANGED notChatInput

\* The stop event of a recorder: handleRecordingStop, with the number of
\* chunks that were recorded
handleRecordingStop(id, chunks) ==
    /\ chatInput.recorders[id] = "stopping"
    /\ chatInput' = IF chunks = 0
                    THEN cleanupStream([chatInput EXCEPT !.recorders[id] = "inactive"])
                    ELSE [chatInput EXCEPT !.recorders[id] = "reading"]
    /\ UNCHANGED notChatInput

\* The read of the blob ends: reader.onloadend with the data URL (ok), or
\* reader.onerror and reader.onloadend without a result
readerOnLoadEnd(id, ok) ==
    /\ chatInput.recorders[id] = "reading"
    /\ chatInput' = cleanupStream([chatInput EXCEPT
                                      !.recorders[id] = "inactive",
                                      !.sent = IF ok THEN @ + 1 ELSE @])
    /\ UNCHANGED notChatInput

RecorderNext ==
    \/ PropIsLoading
    \/ handleMicMouseDown
    \/ handleMicMouseUp
    \/ getUserMediaResolves
    \/ getUserMediaRejects
    \/ \E id \in 1..MaxRecordings, chunks \in 0..1 : handleRecordingStop(id, chunks)
    \/ \E id \in 1..MaxRecordings, ok \in BOOLEAN : readerOnLoadEnd(id, ok)

RecorderSpec == RecorderInit /\ [][RecorderNext]_vars

(***************************************************************************)
(* The player specification: AudioPlayer (AudioPlayer.tsx) for one audio   *)
(* source.  The effect that registers the listeners runs once per source,  *)
(* so the listeners are the callbacks of the render it ran in.             *)
(***************************************************************************)
PlayerStart ==
    /\ messages = <<>>
    /\ isLoading = FALSE
    /\ reportContent = Null
    /\ isReportVisible = FALSE
    /\ flights = {}
    /\ reads = <<>>
    /\ isRecording = FALSE
    /\ recorder = NoRecorder
    /\ nextId = 0
    /\ submits = 0
    /\ sessionTurns = 0
    /\ splitInput = <<>>
    /\ splitOutput = NotSplit
    /\ routeReq = NoRequest
    /\ routeEnv = NoRequest
    /\ routeRes = NoResponse
    /\ chatInput = ChatInputInit
    /\ player = PlayerInit

\* The variables of the other specifications
notPlayer ==
    <<pageVars, reads, isRecording, recorder, splitVars, routeVars, chatInput>>

\* What audioRef.current.duration is read as: not finite or not positive
\* (stored as 0), or the duration of a short or of a long audio
AudioDurations == {0, MaxDuration \div 2, MaxDuration}

\* isPlayerDisabled
isPlayerDisabled == player.isLoadingMetadata \/ player.duration = 0

\* loadedmetadata, and the timeout of handleMetadataLoaded: the duration is
\* read from the audio element, valid or not (0)
handleMetadataLoaded(audioDuration) ==
    /\ player.isLoadingMetadata
    /\ player' = [player EXCEPT !.duration = audioDuration,
                                !.isLoadingMetadata = FALSE]
    /\ UNCHANGED notPlayer

\* togglePlayPause, with the play or pause event of the audio element
togglePlayPause ==
    /\ ~isPlayerDisabled
    /\ player' = [player EXCEPT !.isPlaying = ~@]
    /\ UNCHANGED notPlayer

\* The audio plays on and fires timeupdate: the registered handleTimeUpdate
handleTimeUpdate ==
    /\ player.isPlaying
    /\ player.audioTime < player.duration
    /\ player' = [player EXCEPT
                     !.audioTime = @ + 1,
                     !.currentTime = IF ~player.listenerIsSeeking
                                     THEN player.audioTime + 1 ELSE @]
    /\ UNCHANGED notPlayer

\* The audio reaches its end and fires ended: handleAudioEnded
handleAudioEnded ==
    /\ player.isPlaying
    /\ player.audioTime = player.duration
    /\ player' = [player EXCEPT !.isPlaying = FALSE, !.currentTime = 0,
                                !.audioTime = 0]
    /\ UNCHANGED notPlayer

\* Pointer down on the slider
handlePointerDown ==
    /\ ~isPlayerDisabled
    /\ ~player.isSeeking
    /\ player' = [player EXCEPT !.isSeeking = TRUE]
    /\ UNCHANGED notPlayer

\* onValueChange of the slider, by pointer or by keyboard
handleSeek(seekTime) ==
    /\ ~isPlayerDisabled
    /\ LET clampedTime ==
               IF seekTime < 0 THEN 0
               ELSE IF seekTime > player.duration THEN player.duration
               ELSE seekTime
       IN  player' = IF player.duration # 0
                     THEN [player EXCEPT !.audioTime = clampedTime,
                                         !.currentTime = clampedTime]
                     ELSE player
    /\ UNCHANGED notPlayer

\* onValueCommit of the slider
handleSeekCommit ==
    /\ player.isSeeking
    /\ player' = [player EXCEPT !.isSeeking = FALSE]
    /\ UNCHANGED notPlayer

PlayerNext ==
    \/ \E audioDuration \in AudioDurations : handleMetadataLoaded(audioDuration)
    \/ togglePlayPause
    \/ handleTimeUpdate
    \/ handleAudioEnded
    \/ handlePointerDown
    \/ \E seekTime \in -1..(MaxDuration + 1) : handleSeek(seekTime)
    \/ handleSeekCommit

PlayerSpec == PlayerStart /\ [][PlayerNext]_vars

(***************************************************************************)
(* Properties.                                                             *)
(***************************************************************************)
\* An assistant message with the given text, as the success branch makes it
Received(id, text) == Message(id, text, Undefined, Undefined, "ai", "received")

\* The state a rejected submission must leave alone
Untouched == UNCHANGED <<messages, reportContent, isReportVisible, isLoading, flights>>

\* C1: at most one submission is in flight at any time, also when a submission
\* arrives through the callback of a file read.
OneInFlight == Cardinality(flights) <= 1

\* C2: a submission that is empty in all three channels, or that arrives while
\* the busy flag is set, appends no message, sends no request and leaves the
\* conversation, the report and the busy flag unchanged.
RejectedIsNoOp ==
    [][/\ \A v \in TypedTexts :
            HandleSend(v) /\ (~Truthy(Trim(v)) \/ isLoading) => Untouched
       /\ \A i \in 1..Len(reads), ok \in BOOLEAN :
            ReadCompletes(i, ok) /\ (~ok \/ isLoading) => Untouched]_vars

\* C3: a confirmed new session leaves the conversation empty and the report
\* absent and hidden, whatever the state before.
NewSessionClears ==
    [][HandleNewSession(TRUE) =>
          messages' = <<>> /\ reportContent' = Null /\ ~isReportVisible']_vars

\* A new session cleared the conversation while a request was in flight
NewSessionClearsWitness ==
    messages = <<>> /\ reportContent = Null /\ flights # {} /\ submits = MaxSubmits

\* The positions in a conversation of the messages that are neither placeholder
\* nor error and have a non-empty text
Kept(conv) ==
    {i \in 1..Len(conv) : conv[i].status \notin {"loading", "error"} /\ conv[i].text # <<>>}

\* The k-th smallest element of a set of numbers
Nth(set, k) == CHOOSE i \in set : Cardinality({j \in set : j <= i}) = k

\* C4: the history sent to the model is the conversation without its
\* placeholder and error messages and without the messages of empty text, in
\* the original order, each mapped to role user or model.
HistoryIsFiltered ==
    \A f \in flights :
        LET sent == FormattedHistory(f.body.history)
        IN  /\ Len(sent) = Cardinality(Kept(f.conv))
            /\ \A k \in 1..Len(sent) :
                  LET msg == f.conv[Nth(Kept(f.conv), k)]
                  IN  sent[k] = [role |-> IF msg.sender = "user" THEN "user" ELSE "model",
                                 parts |-> <<[text |-> msg.text]>>]
            /\ f.pc = "json" /\ f.response.contents # NoCall /\ sent # <<>>
                  => SubSeq(f.response.contents, 1, Len(f.response.contents) - 1) = sent

\* The model was called with a history taken from a conversation that holds a
\* placeholder
HistoryIsFilteredWitness ==
    \E f \in flights :
        /\ f.pc = "json" /\ f.response.contents # NoCall
        /\ Len(f.body.history) > 0
        /\ \E i \in 1..Len(f.conv) : f.conv[i].status = "loading"

\* C5: the request is [system instructions, greeting, current turn] exactly when
\* the filtered history is empty, and [history..., current turn] otherwise; the
\* current turn is last.
BootstrapIffEmptyHistory ==
    \A f \in flights :
        f.pc = "json" /\ f.response.contents # NoCall =>
            LET contents == f.response.contents
                history == FormattedHistory(f.body.history)
                current == [role |-> "user", parts |-> CurrentParts(f.body).parts]
            IN  /\ contents[Len(contents)] = current
                /\ history = <<>> =>
                      contents = <<[role |-> "user", parts |-> <<[text |-> systemPromptText]>>],
                                   [role |-> "model", parts |-> <<[text |-> GREETING]>>],
                                   current>>
                /\ history # <<>> =>
                      /\ contents = history \o <<current>>
                      /\ \A i \in 1..Len(contents) :
                            contents[i].parts[1] # [text |-> systemPromptText]

\* The model was called with a request that carries a history
BootstrapIffEmptyHistoryWitness ==
    \E f \in flights :
        f.pc = "json" /\ f.response.contents # NoCall /\ Len(f.body.history) > 0

\* C6: within one session the bootstrap is injected only into the request of the
\* first turn; stated for the later turns whose handler saw a conversation that
\* was not empty.
BootstrapOnlyOnFirstTurn ==
    \A f \in flights :
        f.pc = "json" /\ f.response.contents # NoCall /\ f.turn > 1 /\ f.conv # <<>>
            => f.response.contents[1].parts[1] # [text |-> systemPromptText]

\* The decompositions of the fragments of a response text into
\* pre, START, report, END, post: the positions of the two markers
Decompositions(frags) ==
    {d \in (1..Len(frags)) \X (1..Len(frags)) :
        d[1] < d[2] /\ frags[d[1]] = REPORT_START_MARKER /\ frags[d[2]] = REPORT_END_MARKER}

PreOf(frags, d) == Flatten(SubSeq(frags, 1, d[1] - 1))
ReportOf(frags, d) == Flatten(SubSeq(frags, d[1] + 1, d[2] - 1))
PostOf(frags, d) == Flatten(SubSeq(frags, d[2] + 1, Len(frags)))

\* The split recovers the trimmed parts of a decomposition
Recovers(frags, d) ==
    /\ splitOutput.isReport
    /\ splitOutput.regularResponse = Trim(PreOf(frags, d))
    /\ splitOutput.extractedReport = Trim(ReportOf(frags, d))
    /\ splitOutput.postReportText = Trim(PostOf(frags, d))

\* C7 as stated: for all strings pre, report and post, the split of
\* pre + START + report + END + post yields their trimmed values.
RoundTripAll ==
    splitOutput # NotSplit =>
        \A d \in Decompositions(splitInput) : Recovers(splitInput, d)

\* C7, amended: the same, for the strings in which the first START marker of the
\* whole text is the one written after pre and the first END marker is the one
\* written after report.
RoundTrip ==
    splitOutput # NotSplit =>
        \A d \in Decompositions(splitInput) :
            LET full == Flatten(splitInput)
                pre == PreOf(splitInput, d)
                report == ReportOf(splitInput, d)
            IN  /\ IndexOf(full, REPORT_START_MARKER) = Len(pre)
                /\ IndexOf(full, REPORT_END_MARKER)
                      = Len(pre) + Len(REPORT_START_MARKER) + Len(report)
                => Recovers(splitInput, d)

\* A text with text on both sides of the report was split, and trimming removed
\* white space from each part
RoundTripWitness ==
    /\ splitOutput # NotSplit
    /\ Len(splitInput) = 5
    /\ splitInput[1] = <<" ", "a", "\n">>
    /\ splitOutput.isReport
    /\ splitOutput.regularResponse = <<"a">>
    /\ splitOutput.extractedReport = <<"a">>
    /\ splitOutput.postReportText = <<"a">>

\* What the success branch is given: the flight whose response.json() resolves
\* carries an OK response with this truthy text
Delivers(f, text) ==
    /\ ResponseJson(f)
    /\ f.response.ok
    /\ f.response.json.field = "response"
    /\ f.response.json.value = text
    /\ text # <<>>

\* The texts of the OK responses in flight
TextsInFlight ==
    {f.response.json.value : f \in {g \in flights : g.pc = "json" /\ g.response.ok}}

\* A valid marker pair: both markers found, the first END after the first START
ValidPair(text) ==
    /\ IndexOf(text, REPORT_START_MARKER) # -1
    /\ IndexOf(text, REPORT_END_MARKER) # -1
    /\ IndexOf(text, REPORT_END_MARKER) > IndexOf(text, REPORT_START_MARKER)

\* C8: a response without a valid marker pair is appended whole as exactly one
\* assistant message, and the report is set to absent.
PlainResponseAppendedWhole ==
    [][\A f \in flights, text \in TextsInFlight :
          Delivers(f, text) /\ ~ValidPair(text) =>
              /\ messages' = Append(messages, Received(nextId + 1, text))
              /\ reportContent' = Null]_vars

\* A response whose END marker comes before its START marker was appended whole
PlainResponseAppendedWholeWitness ==
    /\ messages # <<>>
    /\ messages[Len(messages)].text = REPORT_END_MARKER \o <<"x">> \o REPORT_START_MARKER
    /\ messages[Len(messages)].status = "received"
    /\ reportContent = Null
    /\ submits = MaxSubmits

\* The text between two positions of a text (0-based, the first included, the
\* second not): empty when there is none
Between(text, from, to) == SubSeq(text, from + 1, to)

\* C9: with a valid marker pair the report is the trimmed text between the
\* markers, the trimmed pre-text and post-text are appended, in this order, each
\* if and only if it is not empty, as messages of status received.
ReportResponseSplit ==
    [][\A f \in flights, text \in TextsInFlight :
          Delivers(f, text) /\ ValidPair(text) =>
              LET s == IndexOf(text, REPORT_START_MARKER)
                  e == IndexOf(text, REPORT_END_MARKER)
                  pre == Trim(Between(text, 0, s))
                  report == Trim(Between(text, s + Len(REPORT_START_MARKER), e))
                  post == Trim(Between(text, e + Len(REPORT_END_MARKER), Len(text)))
                  new == SubSeq(messages', Len(messages) + 1, Len(messages'))
              IN  /\ reportContent' = report
                  /\ SubSeq(messages', 1, Len(messages)) = messages
                  /\ [i \in 1..Len(new) |-> new[i].text]
                        = (IF pre # <<>> THEN <<pre>> ELSE <<>>)
                          \o (IF post # <<>> THEN <<post>> ELSE <<>>)
                  /\ \A i \in 1..Len(new) :
                        new[i].status = "received" /\ new[i].sender = "ai"]_vars

\* C10: a successful response that yields no assistant message and no report
\* content ends the turn with an error message, so no successful response ends
\* the turn with nothing appended and no report content.
SilentSuccessIsFailure ==
    [][\A f \in flights :
          ResponseJson(f) /\ f.response.ok =>
              Len(messages') > Len(messages) \/ Truthy(reportContent')]_vars

\* The message of the failure that ends the turn of a suspended call: of the
\* rejection of fetch, of the error body of a non-OK response (or the status
\* line when the body has no error to give), of the rejection of
\* response.json() on a success body that does not parse
FailureMessage(f) ==
    IF f.pc = "fetch" THEN FETCH_ERROR
    ELSE IF ~f.response.ok
    THEN IF f.response.json.field = "error"
         THEN f.response.json.value
         ELSE <<"API request failed: ">> \o StatusText(f.response.status)
              \o <<" (", ToString(f.response.status), ")">>
    ELSE JSON_ERROR

\* The turn of the call ends with a gateway failure in this step
FailsAtGateway(f) ==
    \/ FetchRejects(f)
    \/ ResponseJson(f) /\ (~f.response.ok \/ f.response.json.field = "unparsable")

\* C11: every gateway failure (non-OK status with or without a parsable error
\* body, network error, unparsable success body) ends the turn with the
\* placeholder removed and exactly one assistant message of status error
\* appended, whose text is "Sorry, error: " followed by the failure's message;
\* no message of status received is appended and the call is over.
GatewayFailureIsOneError ==
    [][\A f \in flights :
          FailsAtGateway(f) =>
              LET rest == SelectSeq(messages,
                                    LAMBDA msg : msg.id # f.thinkingMessageId)
              IN  /\ Len(messages') = Len(rest) + 1
                  /\ SubSeq(messages', 1, Len(rest)) = rest
                  /\ messages'[Len(messages')].status = "error"
                  /\ messages'[Len(messages')].sender = "ai"
                  /\ messages'[Len(messages')].text
                        = <<"Sorry, error: ">> \o FailureMessage(f)
                  /\ \A i \in 1..Len(messages') :
                        messages'[i].id # f.thinkingMessageId
                  /\ flights' = flights \ {f}]_vars

\* A turn ended on a success body that does not parse, after one that ended on
\* an error page without a parsable body
GatewayFailureIsOneErrorWitness ==
    /\ Len(messages) = 4
    /\ messages[2].status = "error"
    /\ messages[2].text = <<"Sorry, error: ", "API request failed: ", "Bad Gateway",
                            " (", "502", ")">>
    /\ messages[4].status = "error"
    /\ messages[4].text = <<"Sorry, error: ">> \o JSON_ERROR
    /\ flights = {}
    /\ ~isLoading

\* The response that the fetch of a call resolved with in this step
ResponseTo(f) ==
    (CHOOSE g \in flights' : g.thinkingMessageId = f.thinkingMessageId).response

\* The client's handling of an OK response with an empty or missing response
\* field: one error message and no received message
EmptyOkIsError ==
    \A f \in flights :
        ResponseJson(f) /\ f.response.ok
          /\ f.response.json.field \in {"response", "none"}
          /\ ~Truthy(f.response.json.value) =>
            /\ Len(messages') = Len(messages) + 1
            /\ SubSeq(messages', 1, Len(messages)) = messages
            /\ messages'[Len(messages')].status = "error"

\* C12 as stated: the route answers 500 whenever the first candidate has no
\* text, and the client turns an OK response with an empty or missing
\* response field into an error message and no received message.
EmptyIsFailureAll ==
    [][/\ \A f \in flights, gemini \in GeminiOutcomes :
            FetchResolves(f, gemini) /\ gemini.kind = "candidate"
              /\ ~Truthy(gemini.text) => ResponseTo(f).status = 500
       /\ EmptyOkIsError]_vars

\* C12: the route answers a first candidate without text with an error status,
\* 500 when its finish reason is absent or STOP and 400 when it finished for
\* another reason; the client turns an OK response with an empty or missing
\* response field into an error message and no received message.
EmptyIsFailure ==
    [][/\ \A f \in flights, gemini \in GeminiOutcomes :
            FetchResolves(f, gemini) /\ gemini.kind = "candidate"
              /\ ~Truthy(gemini.text) =>
                /\ ~ResponseTo(f).ok
                /\ ResponseTo(f).status
                      = IF gemini.finishReason \in {"undefined", "STOP"}
                        THEN 500 ELSE 400
       /\ EmptyOkIsError]_vars

\* A turn ended on the route's 500 for a candidate without text, and the next
\* on an OK response without a response field
EmptyIsFailureWitness ==
    /\ Len(messages) = 4
    /\ messages[2].text = <<"Sorry, error: ", "AI returned an empty response content.">>
    /\ messages[4].text = <<"Sorry, error: ">> \o EMPTY_RESPONSE_ERROR
    /\ messages[4].status = "error"
    /\ flights = {}

\* A call of sendMultimodalMessage ends in this step
TurnEnds ==
    \E f \in flights : FetchRejects(f) \/ ResponseJson(f)

\* C13: every accepted submission eventually returns the controller to idle
\* (no call is suspended and the busy flag is false), whether its gateway call
\* succeeds or fails; the call that ends leaves the busy flag false, and a
\* submission made when the busy flag is false is accepted.
ReturnsToIdle ==
    /\ (flights # {}) ~> (flights = {} /\ ~isLoading)
    /\ [][/\ TurnEnds => ~isLoading'
          /\ \A v \in TypedTexts :
               HandleSend(v) /\ Truthy(Trim(v)) /\ ~isLoading =>
                   /\ isLoading'
                   /\ Cardinality(flights') = Cardinality(flights) + 1
                   /\ Len(messages') = Len(messages) + 2]_vars

\* The second submission was accepted after the first one's turn had ended with
\* a response, and its own turn ended with a failure
ReturnsToIdleWitness ==
    /\ Len(messages) = 4
    /\ messages[2].status = "received"
    /\ messages[3].sender = "user"
    /\ messages[4].status = "error"
    /\ flights = {}
    /\ ~isLoading
    /\ submits = MaxSubmits

\* The positions of the placeholders in the conversation
Placeholders == {i \in 1..Len(messages) : messages[i].status = "loading"}

\* C14: the conversation contains at most one placeholder, and each request
\* in flight (its fetch is pending) has exactly one placeholder of its own.
OnePlaceholder ==
    /\ Cardinality(Placeholders) <= 1
    /\ \A f \in flights :
          f.pc = "fetch" =>
            Cardinality({i \in Placeholders :
                            messages[i].id = f.thinkingMessageId}) = 1

\* C15: every message other than the placeholder has a non-empty text, image
\* data or audio data.
EveryMessageHasContent ==
    \A i \in 1..Len(messages) :
        messages[i].status # "loading" =>
            \/ Truthy(messages[i].text)
            \/ Truthy(messages[i].imageUrl)
            \/ Truthy(messages[i].audioDataUrl)

\* An image without text was sent and answered with a report between pre-text
\* and post-text, then a text was sent and its turn ended with an error
EveryMessageHasContentWitness ==
    /\ Len(messages) = 5
    /\ messages[1].text = <<>> /\ Truthy(messages[1].imageUrl)
    /\ messages[2].status = "received" /\ messages[3].status = "received"
    /\ messages[4].sender = "user" /\ Truthy(messages[4].text)
    /\ messages[5].status = "error"
    /\ Truthy(reportContent)

\* The messages of the conversation that are still in it after the step
StillThere ==
    SelectSeq(messages,
              LAMBDA msg : \E j \in 1..Len(messages') : messages'[j].id = msg.id)

\* C16: every step leaves the fields and the order of the messages already
\* present unchanged and adds messages only at the end; a message is removed
\* only as the placeholder of the call that acts in the step, or by the bulk
\* clear of a confirmed new session.
AppendOnly ==
    [][\/ HandleNewSession(TRUE) /\ messages' = <<>>
       \/ /\ Len(messages') >= Len(StillThere)
          /\ SubSeq(messages', 1, Len(StillThere)) = StillThere
          /\ \A i \in 1..Len(messages) :
                (\A j \in 1..Len(messages') : messages'[j].id # messages[i].id) =>
                    /\ messages[i].status = "loading"
                    /\ \E f \in flights \ flights' :
                          f.thinkingMessageId = messages[i].id]_vars

\* After a turn that left three messages, the placeholder of the second turn
\* was removed and its response is being read
AppendOnlyWitness ==
    /\ Len(messages) = 4
    /\ messages[1].sender = "user"
    /\ messages[2].status = "received" /\ messages[3].status = "received"
    /\ messages[4].sender = "user"
    /\ \E f \in flights : f.pc = "json"

\* The step appends a user message with the given contents and then a
\* placeholder, for a call that is suspended at its fetch after the step
AppendsPair(text, imageDataUrl, audioDataUrl) ==
    /\ Len(messages') = Len(messages) + 2
    /\ SubSeq(messages', 1, Len(messages)) = messages
    /\ LET user == messages'[Len(messages) + 1]
           placeholder == messages'[Len(messages) + 2]
       IN  /\ user.sender = "user" /\ user.status = "sent"
           /\ user.text = text
           /\ user.imageUrl = imageDataUrl
           /\ user.audioDataUrl = audioDataUrl
           /\ placeholder.sender = "ai" /\ placeholder.status = "loading"
           /\ \E f \in flights' \ flights :
                 f.thinkingMessageId = placeholder.id /\ f.pc = "fetch"

\* C17: an accepted submission appends the user message (status sent, with
\* the submitted text, image or audio) immediately followed by the
\* placeholder (sender ai, status loading), before the request is sent.
AcceptedAppendsPair ==
    [][/\ \A v \in TypedTexts :
            HandleSend(v) /\ flights' # flights =>
                AppendsPair(Trim(v), Undefined, Undefined)
       /\ \A i \in 1..Len(reads) :
            ReadCompletes(i, TRUE) /\ flights' # flights =>
                LET dataUrl == DATA_PREFIX \o reads[i].type \o BASE64_SEP \o PAYLOAD
                IN  IF reads[i].kind = "image"
                    THEN AppendsPair(<<>>, dataUrl, Undefined)
                    ELSE AppendsPair(<<>>, Undefined, dataUrl)
       /\ Cardinality(flights') > Cardinality(flights) =>
            (\E v \in TypedTexts : HandleSend(v))
              \/ \E i \in 1..Len(reads) : ReadCompletes(i, TRUE)]_vars

\* A recording was submitted after a text turn: its user message and its
\* placeholder are the last two messages
AcceptedAppendsPairWitness ==
    /\ Len(messages) = 4
    /\ messages[1].text = <<"h", "i">>
    /\ messages[3].sender = "user" /\ messages[3].text = <<>>
    /\ Truthy(messages[3].audioDataUrl)
    /\ messages[4].status = "loading"
    /\ \E f \in flights : f.thinkingMessageId = messages[4].id /\ f.pc = "fetch"

\* The base64 alphabet, with the padding character
Base64Chars ==
    {"A", "B", "C", "D", "E", "F", "G", "H", "I", "J", "K", "L", "M", "N", "O", "P",
     "Q", "R", "S", "T", "U", "V", "W", "X", "Y", "Z", "a", "b", "c", "d", "e", "f",
     "g", "h", "i", "j", "k", "l", "m", "n", "o", "p", "q", "r", "s", "t", "u", "v",
     "w", "x", "y", "z", "0", "1", "2", "3", "4", "5", "6", "7", "8", "9", "+", "/",
     "="}

\* The positions (0-based) of the separator ";base64," in a value
Separators(v) ==
    {j \in 0..(Len(v) - Len(BASE64_SEP)) :
        SubSeq(v, j + 1, j + Len(BASE64_SEP)) = BASE64_SEP}

\* The value has the form data:<type>;base64,<data> with non-empty type and
\* data on one line
HasDataUrlForm(v) ==
    /\ StartsWith(v, DATA_PREFIX)
    /\ \E j \in Separators(v) :
          j > Len(DATA_PREFIX) /\ j + Len(BASE64_SEP) < Len(v)
    /\ \A k \in 1..Len(v) : v[k] # "\n"

\* The value is a well-formed base64 data URL: of that form, with base64 data
IsBase64DataUrl(v) ==
    /\ StartsWith(v, DATA_PREFIX)
    /\ \E j \in Separators(v) :
          /\ j > Len(DATA_PREFIX) /\ j + Len(BASE64_SEP) < Len(v)
          /\ \A k \in (j + Len(BASE64_SEP) + 1)..Len(v) : v[k] \in Base64Chars
    /\ \A k \in 1..Len(v) : v[k] # "\n"

\* The type of a value of the data URL form is image/*
IsImageType(v) == StartsWith(v, DATA_PREFIX \o <<"i", "m", "a", "g", "e", "/">>)

\* The request has no text after trimming, no image and no audio
NoContent(req) ==
    /\ req.prompt = Undefined \/ Trim(req.prompt) = <<>>
    /\ ~Truthy(req.imageDataUrl)
    /\ ~Truthy(req.audioDataUrl)

\* The route answered with a validation error and did not call the model: it
\* answers 400, unless no API key is configured, which it answers first
RejectedUncalled ==
    /\ ~routeRes.ok
    /\ routeRes.json.field = "error"
    /\ routeRes.contents = NoCall
    /\ routeEnv.kind # "nokey" => routeRes.status = 400

\* C18 as stated: a request with no text, image or audio, or with a media
\* value that is not a well-formed base64 data URL, or with an image value
\* whose type is not image/*, is answered with a validation error and the
\* model is never called for it.
InvalidIsRejectedAll ==
    routeRes # NoResponse /\
        (\/ NoContent(routeReq)
         \/ Truthy(routeReq.imageDataUrl)
              /\ (~IsBase64DataUrl(routeReq.imageDataUrl)
                    \/ ~IsImageType(routeReq.imageDataUrl))
         \/ Truthy(routeReq.audioDataUrl) /\ ~IsBase64DataUrl(routeReq.audioDataUrl))
        => RejectedUncalled

\* C18: a request with no text, image or audio, or with a media value that
\* does not have the form data:<type>;base64,<data>, or with an image value
\* whose type is not image/*, is answered with a validation error and the
\* model is never called for it.
InvalidIsRejected ==
    routeRes # NoResponse /\
        (\/ NoContent(routeReq)
         \/ Truthy(routeReq.imageDataUrl)
              /\ (~HasDataUrlForm(routeReq.imageDataUrl)
                    \/ ~IsImageType(routeReq.imageDataUrl))
         \/ Truthy(routeReq.audioDataUrl) /\ ~HasDataUrlForm(routeReq.audioDataUrl))
        => RejectedUncalled

\* A request with a text and an image of type text/plain was answered 400
\* without a call of the model, which would have answered
InvalidIsRejectedWitness ==
    /\ routeRes # NoResponse
    /\ routeReq.prompt = <<" ", "h", "i", " ">>
    /\ routeReq.imageDataUrl = ReadAsDataURL(MIME_TEXT_PLAIN, PAYLOAD)
    /\ routeReq.audioDataUrl = ReadAsDataURL(MIME_AUDIO_WEBM, PAYLOAD)
    /\ routeEnv.kind = "candidate" /\ Truthy(routeEnv.text)
    /\ routeRes.status = 400
    /\ routeRes.contents = NoCall

\* The parts of the current turn in the contents the model was called with
CurrentTurnParts == routeRes.contents[Len(routeRes.contents)].parts

\* The kind of a part
IsMediaPart(part) == "inlineData" \in DOMAIN part
IsTextPart(part) == "text" \in DOMAIN part

\* C19: the current turn's parts are the image part (if an image was given),
\* then the audio part (if audio was given), then the text part, which is
\* last and the only one.
PartsInOrder ==
    routeRes # NoResponse /\ routeRes.contents # NoCall =>
        LET parts == CurrentTurnParts
            img == IF Truthy(routeReq.imageDataUrl) THEN 1 ELSE 0
            aud == IF Truthy(routeReq.audioDataUrl) THEN 1 ELSE 0
        IN  /\ Len(parts) = img + aud + 1
            /\ img = 1 =>
                  /\ IsMediaPart(parts[1])
                  /\ routeReq.imageDataUrl
                       = ReadAsDataURL(parts[1].inlineData.mimeType,
                                       parts[1].inlineData.data)
            /\ aud = 1 =>
                  /\ IsMediaPart(parts[img + 1])
                  /\ routeReq.audioDataUrl
                       = ReadAsDataURL(parts[img + 1].inlineData.mimeType,
                                       parts[img + 1].inlineData.data)
            /\ IsTextPart(parts[Len(parts)])
            /\ Cardinality({i \in 1..Len(parts) : IsTextPart(parts[i])}) = 1

\* The model was called with an image part, an audio part and a text part
PartsInOrderWitness ==
    /\ routeRes # NoResponse /\ routeRes.contents # NoCall
    /\ Len(CurrentTurnParts) = 3
    /\ CurrentTurnParts[1].inlineData.mimeType = MIME_IMAGE_PNG
    /\ CurrentTurnParts[2].inlineData.mimeType = MIME_AUDIO_WEBM
    /\ CurrentTurnParts[3].text = <<"h", "i">>

\* C20: without a text after trimming, and with valid media, the text part is
\* the default instruction, which names "image" if an image is present and
\* "audio" otherwise; with a text, the text part is the trimmed text.
DefaultInstruction ==
    routeRes # NoResponse /\ routeRes.contents # NoCall =>
        LET text == CurrentTurnParts[Len(CurrentTurnParts)].text
        IN  IF routeReq.prompt # Undefined /\ Trim(routeReq.prompt) # <<>>
            THEN text = Trim(routeReq.prompt)
            ELSE IF Truthy(routeReq.imageDataUrl)
            THEN text = <<"Process this ", "image",
                          " considering our ongoing health consultation context.">>
            ELSE text = <<"Process this ", "audio",
                          " considering our ongoing health consultation context.">>

\* The model was called for an image and a recording with a blank prompt: the
\* instruction names the image
DefaultInstructionWitness ==
    /\ routeRes # NoResponse /\ routeRes.contents # NoCall
    /\ routeReq.prompt = <<" ">>
    /\ Truthy(routeReq.imageDataUrl) /\ Truthy(routeReq.audioDataUrl)
    /\ Len(CurrentTurnParts) = 3
    /\ CurrentTurnParts[3].text[2] = "image"

\* The request's image is absent or passes the image step of the route
ImagePasses(req) ==
    ~Truthy(req.imageDataUrl)
    \/ (HasDataUrlForm(req.imageDataUrl) /\ IsImageType(req.imageDataUrl))

\* The type of a value of the data URL form is one of the known audio types
IsCommonAudio(v) ==
    \E type \in commonAudioTypes : StartsWith(v, DATA_PREFIX \o type)

\* C21: an audio value that is a well-formed base64 data URL is never
\* answered with the audio validation error, whatever its MIME type; where
\* the route gets as far as the model (an API key is configured and the
\* image, if any, is valid), the model is called with an audio part that
\* carries the value's type and data.
AudioIsAdvisory ==
    routeRes # NoResponse /\ Truthy(routeReq.audioDataUrl)
        /\ IsBase64DataUrl(routeReq.audioDataUrl) =>
        /\ routeRes.json.value # <<"Invalid or unsupported audio data format.">>
        /\ routeEnv.kind # "nokey" /\ ImagePasses(routeReq) =>
              /\ routeRes.contents # NoCall
              /\ \E i \in 1..Len(CurrentTurnParts) :
                    /\ IsMediaPart(CurrentTurnParts[i])
                    /\ routeReq.audioDataUrl
                         = ReadAsDataURL(CurrentTurnParts[i].inlineData.mimeType,
                                         CurrentTurnParts[i].inlineData.data)

\* A recording of type text/plain, outside the known audio types, was sent
\* alone and the model was called with it and answered
AudioIsAdvisoryWitness ==
    /\ routeRes # NoResponse
    /\ routeReq.audioDataUrl = ReadAsDataURL(MIME_TEXT_PLAIN, PAYLOAD)
    /\ ~IsCommonAudio(routeReq.audioDataUrl)
    /\ ~Truthy(routeReq.imageDataUrl)
    /\ routeRes.contents # NoCall
    /\ CurrentTurnParts[1].inlineData.mimeType = MIME_TEXT_PLAIN
    /\ routeRes.status = 200

\* C22: a file outside image/* never becomes an image part: every file that
\* the input component has handed on for reading as an image is of an
\* image/* type, and the route answers an image data URL of another type
\* with a validation error (400) without calling the model.
NonImageNeverSent ==
    /\ \A i \in 1..Len(reads) :
          reads[i].kind = "image" =>
              StartsWith(reads[i].type, <<"i", "m", "a", "g", "e", "/">>)
    /\ routeRes # NoResponse /\ Truthy(routeReq.imageDataUrl)
          /\ HasDataUrlForm(routeReq.imageDataUrl)
          /\ ~IsImageType(routeReq.imageDataUrl) =>
          /\ RejectedUncalled
          /\ routeEnv.kind # "nokey" =>
                routeRes.json.value = <<"Invalid image data format.">>

\* A PNG file was handed on for reading, and an image data URL of type
\* text/plain, sent with a text, was answered 400 without a call of the model
NonImageNeverSentWitness ==
    /\ Len(reads) = 1 /\ reads[1].type = MIME_IMAGE_PNG
    /\ routeRes # NoResponse
    /\ routeReq.imageDataUrl = ReadAsDataURL(MIME_TEXT_PLAIN, PAYLOAD)
    /\ Truthy(UserPromptText(routeReq))
    /\ routeEnv.kind = "candidate" /\ Truthy(routeEnv.text)
    /\ routeRes.status = 400
    /\ routeRes.contents = NoCall

\* The thrown failure is a rejected credential
CredentialRejected(message) ==
    Includes(message, "API Key not valid") \/ Includes(message, "permission")

\* C23: the status of the answer to a thrown failure of the model call tells
\* its category: 403 for a rejected credential, 404 for a model that was not
\* found, 500 for any other failure.
StatusIsCategory ==
    routeRes # NoResponse /\ routeRes.contents # NoCall /\ routeEnv.kind = "throw" =>
        IF CredentialRejected(routeEnv.message)
        THEN routeRes.status = 403
        ELSE IF Includes(routeEnv.message, "404 Not Found")
        THEN routeRes.status = 404
        ELSE Includes(routeEnv.message, "models/") \/ routeRes.status = 500

\* The number of error messages of a conversation
ErrorCount(msgs) == Cardinality({i \in 1..Len(msgs) : msgs[i].status = "error"})

\* C24: there is no retry.  A step issues a request only as an accepted
\* submission, and then exactly one; a call that is waiting for its fetch was
\* either waiting before or has just been submitted; a response of the route
\* to a request of the page carries the contents of the one call of the
\* model; and a step that surfaces a failure appends one error message and
\* ends the call it belongs to, leaving no other call changed.
NoRetry ==
    [][/\ Cardinality(flights') > Cardinality(flights) => submits' = submits + 1
       /\ submits' = submits + 1 => Cardinality(flights') = Cardinality(flights) + 1
       /\ \A g \in flights' :
             g.pc = "fetch" =>
                 \/ g \in flights
                 \/ submits' = submits + 1 /\ g.thinkingMessageId = nextId'
       /\ \A g \in flights' :
             g.pc = "json" /\ g.response \notin OtherResponses =>
                 g.response.contents # NoCall
       /\ ErrorCount(messages') > ErrorCount(messages) =>
             /\ ErrorCount(messages') = ErrorCount(messages) + 1
             /\ \E f \in flights : flights' = flights \ {f}]_vars

\* One submission was accepted, its one request failed, and the conversation
\* holds the one error message of it while nothing is in flight
NoRetryWitness ==
    /\ submits = 1
    /\ flights = {}
    /\ ErrorCount(messages) = 1
    /\ Len(messages) = 2
    /\ messages[2].text = <<"Sorry, error: ">> \o FETCH_ERROR

\* C25: after a successful response the report is the trimmed text between
\* the markers, and hidden, if the response has a valid marker pair, and is
\* absent otherwise, whatever it was before.
ReportFollowsResponse ==
    [][\A f \in flights, text \in TextsInFlight :
          Delivers(f, text) =>
              IF ValidPair(text)
              THEN LET s == IndexOf(text, REPORT_START_MARKER)
                       e == IndexOf(text, REPORT_END_MARKER)
                   IN  /\ reportContent'
                            = Trim(Between(text, s + Len(REPORT_START_MARKER), e))
                       /\ ~isReportVisible'
              ELSE reportContent' = Null]_vars

\* The number of user messages of a conversation that carry a recording
AudioCount(msgs) ==
    Cardinality({i \in 1..Len(msgs) : Truthy(msgs[i].audioDataUrl)})

\* C26: a recording is submitted only by the step that ends the read of its
\* blob, which the recorder's stop event started, and that step consumes the
\* read, so that it is submitted at most once; and a recording starts only
\* while no request is in flight.
RecordingHandOff ==
    [][/\ AudioCount(messages') > AudioCount(messages) =>
             /\ AudioCount(messages') = AudioCount(messages) + 1
             /\ \E i \in 1..Len(reads) :
                   reads[i].kind = "audio" /\ reads' = RemoveAt(reads, i)
             /\ recorder.state = "inactive"
       /\ recorder.state = "inactive" /\ recorder'.state = "recording" =>
             flights = {}]_vars

\* C27: the route answers with a success body only for a first candidate
\* whose finish reason is STOP or absent and whose first part has a non-empty
\* text, and that body is this text; for a candidate with any other finish
\* reason it answers 400 with an error that is the sentence naming the
\* reason and nothing of the candidate's text, with or without such a text.
FinishReasonGates ==
    routeRes # NoResponse =>
        /\ routeRes.json.field = "response" =>
              /\ routeEnv.kind = "candidate"
              /\ routeEnv.finishReason \in {"undefined", "STOP"}
              /\ Truthy(routeEnv.text)
              /\ routeRes.json.value = routeEnv.text
              /\ routeRes.status = 200
        /\ routeRes.contents # NoCall /\ routeEnv.kind = "candidate"
              /\ routeEnv.finishReason \notin {"undefined", "STOP"} =>
              /\ routeRes.status = 400
              /\ routeRes.json.field = "error"
              /\ routeRes.json.value
                   = <<"Response was stopped or blocked due to: ",
                       IF routeEnv.finishReason = "SAFETY"
                       THEN "Safety concerns" ELSE routeEnv.finishReason,
                       ".">>

\* A candidate that carries a text and the finish reason MAX_TOKENS was
\* answered 400 with the reason
FinishReasonGatesWitness ==
    /\ routeRes # NoResponse /\ routeRes.contents # NoCall
    /\ routeEnv.kind = "candidate"
    /\ routeEnv.finishReason = "MAX_TOKENS"
    /\ Truthy(routeEnv.text)
    /\ routeRes.status = 400
    /\ routeRes.json.value
         = <<"Response was stopped or blocked due to: ", "MAX_TOKENS", ".">>

\* The 0-based positions at which a marker occurs in a text
Occurrences(text, marker) ==
    {i \in 0..(Len(text) - Len(marker)) :
        SubSeq(text, i + 1, i + Len(marker)) = marker}

\* The least of a non-empty set of positions
Least(positions) == CHOOSE i \in positions : \A j \in positions : i <= j

\* The START marker occurs a second time after its first occurrence and
\* before the first END marker
TwoStartsBeforeEnd(text) ==
    /\ Occurrences(text, REPORT_START_MARKER) # {}
    /\ Occurrences(text, REPORT_END_MARKER) # {}
    /\ \E s2 \in Occurrences(text, REPORT_START_MARKER) :
          /\ s2 >= Least(Occurrences(text, REPORT_START_MARKER))
                     + Len(REPORT_START_MARKER)
          /\ s2 + Len(REPORT_START_MARKER)
                <= Least(Occurrences(text, REPORT_END_MARKER))

\* C28: when the START marker occurs twice before the first END marker, the
\* split is at the first START and the first END: the pre-text is the
\* trimmed text before the first START, and the report is the trimmed text
\* from the end of the first START to the first END, which contains the
\* second START marker and the text after it.
FirstStartFirstEnd ==
    splitOutput # NotSplit /\ TwoStartsBeforeEnd(Flatten(splitInput)) =>
        LET text == Flatten(splitInput)
            s1 == Least(Occurrences(text, REPORT_START_MARKER))
            e == Least(Occurrences(text, REPORT_END_MARKER))
            s2 == Least({i \in Occurrences(text, REPORT_START_MARKER) : i > s1})
        IN  /\ splitOutput.isReport
            /\ splitOutput.regularResponse = Trim(Between(text, 0, s1))
            /\ splitOutput.extractedReport
                 = Trim(Between(text, s1 + Len(REPORT_START_MARKER), s2)
                        \o REPORT_START_MARKER
                        \o Between(text, s2 + Len(REPORT_START_MARKER), e))
            /\ Occurrences(splitOutput.extractedReport, REPORT_START_MARKER) # {}

\* "--- REPORT START --- a\n--- REPORT START --- --- REPORT END ---" was split:
\* the report starts with " a\n" trimmed and holds the second START marker
FirstStartFirstEndWitness ==
    /\ splitInput = <<REPORT_START_MARKER, <<" ", "a", "\n">>, REPORT_START_MARKER,
                      <<" ">>, REPORT_END_MARKER>>
    /\ splitOutput # NotSplit
    /\ splitOutput.isReport
    /\ splitOutput.extractedReport = <<"a", "\n">> \o REPORT_START_MARKER

\* C29: whenever no request is in flight, the conversation holds no
\* placeholder message, also after a reload.
NoPlaceholderAtRest == flights = {} => Placeholders = {}

\* C30: from a confirmed new session to the next accepted submission the
\* conversation and the report stay empty, whatever request was in flight
\* when the session was cleared.
NewSessionStaysEmpty ==
    sessionTurns = 0 => messages = <<>> /\ reportContent = Null

\* C31: the history sent with a submission holds neither the user message
\* nor the placeholder that the submission created, and the contents the
\* model is called with are the earlier turns (or the two bootstrap turns)
\* followed by the turn's content, once.
TurnContentOnce ==
    \A f \in flights :
        /\ \A i \in 1..Len(f.body.history) :
              f.body.history[i].id \notin {f.thinkingMessageId - 1, f.thinkingMessageId}
        /\ f.pc = "json" /\ f.response.contents # NoCall =>
              LET earlier == FormattedHistory(f.body.history)
                  contents == f.response.contents
              IN  /\ Len(contents) = (IF Len(earlier) = 0 THEN 2 ELSE Len(earlier)) + 1
                  /\ Len(earlier) > 0 => SubSeq(contents, 1, Len(earlier)) = earlier
                  /\ contents[Len(contents)].role = "user"
                  /\ contents[Len(contents)].parts = CurrentParts(f.body).parts

\* The model was called for a second text turn: the history holds the first
\* turn and its answer, and the contents end with the second text
TurnContentOnceWitness ==
    \E f \in flights :
        /\ f.pc = "json" /\ f.response.contents # NoCall
        /\ Len(f.body.history) = 2
        /\ Len(f.response.contents) = 3
        /\ f.response.contents[3].parts = <<[text |-> f.body.prompt]>>
        /\ \E i \in 1..Len(messages) : messages[i].id = f.thinkingMessageId - 1

\* C32: the history sent with a request is the filtered conversation as it
\* stands when the submission is accepted, also for an image whose read
\* completes after messages were appended.
HistoryIsCurrent ==
    [][submits' = submits + 1 =>
          \A g \in flights' \ flights :
              g.body.history = HistoryToSend(messages)]_vars

\* C33: whenever a report is extracted, the END marker starts at or after the
\* end of the START marker, and the pre-text, the report and the post-text
\* are the trimmed texts of the three regions that the two markers leave:
\* before START, between the end of START and the start of END, after END.
DisjointRegions ==
    splitOutput # NotSplit /\ splitOutput.isReport =>
        LET text == Flatten(splitInput)
            s == Least(Occurrences(text, REPORT_START_MARKER))
            e == Least(Occurrences(text, REPORT_END_MARKER))
        IN  /\ e >= s + Len(REPORT_START_MARKER)
            /\ splitOutput.regularResponse = Trim(Between(text, 0, s))
            /\ splitOutput.extractedReport
                 = Trim(Between(text, s + Len(REPORT_START_MARKER), e))
            /\ splitOutput.postReportText
                 = Trim(Between(text, e + Len(REPORT_END_MARKER), Len(text)))

\* The step is the success branch of a response: response.json() of a call
\* resolves with a truthy response text
SuccessfulResponse ==
    \E f \in flights :
        /\ ResponseJson(f)
        /\ f.response.ok
        /\ f.response.json.field = "response"
        /\ Truthy(f.response.json.value)

\* C34 as stated: a step that surfaces a failure leaves the report and its
\* visibility unchanged, and only a successful response or a confirmed new
\* session changes the report.
ReportFrameAll ==
    [][/\ ErrorCount(messages') > ErrorCount(messages) =>
             UNCHANGED <<reportContent, isReportVisible>>
       /\ reportContent' # reportContent =>
             SuccessfulResponse \/ HandleNewSession(TRUE)]_vars

\* C34, amended: a step that surfaces a failure leaves the report and its
\* visibility unchanged, and only a successful response, a confirmed new
\* session or a reload of the page, which does not restore the report,
\* changes the report.
ReportFrame ==
    [][/\ ErrorCount(messages') > ErrorCount(messages) =>
             UNCHANGED <<reportContent, isReportVisible>>
       /\ reportContent' # reportContent =>
             SuccessfulResponse \/ HandleNewSession(TRUE) \/ Reload]_vars

\* A report was extracted and shown, and the failure of the next turn left
\* it in place and visible
ReportFrameWitness ==
    /\ Truthy(reportContent)
    /\ isReportVisible
    /\ flights = {}
    /\ messages # <<>>
    /\ messages[Len(messages)].status = "error"

\* C35: once the mic button has been released, no recorder is recording.
ReleasedIsStopped ==
    ~chatInput.held =>
        \A id \in 1..MaxRecordings : chatInput.recorders[id] # "recording"

\* C36: a recording without chunks sends nothing and starts no read, and
\* when the stop processing of a recording ends (no chunks, encode finished,
\* encode error) the tracks of its stream are stopped.
StopReleasesStream ==
    [][\A id \in 1..MaxRecordings :
          /\ handleRecordingStop(id, 0) =>
                /\ chatInput'.sent = chatInput.sent
                /\ chatInput'.recorders[id] = "inactive"
          /\ chatInput.recorders[id] \in {"stopping", "reading"}
                /\ chatInput'.recorders[id] = "inactive" =>
                id \notin chatInput'.live]_vars

\* C37: while the user is seeking, a timeupdate event leaves the displayed
\* current time as it is, and the displayed current time changes only by
\* handleSeek, and then to a time between 0 and the duration.
SeekingHoldsTime ==
    [][player.isSeeking =>
          /\ handleTimeUpdate => player'.currentTime = player.currentTime
          /\ player'.currentTime # player.currentTime =>
                /\ \E seekTime \in -1..(MaxDuration + 1) : handleSeek(seekTime)
                /\ player'.currentTime \in 0..player.duration]_vars

====
